---- MODULE Spec2Model ----
(***************************************************************************)
(* Model of the annotation tool: the Cohen's kappa computation of          *)
(* KappaCalculator.tsx and the snapshot it scores, the annotator sessions  *)
(* of AnnotationInterface.tsx, the adjudication page of                    *)
(* AdjudicatorInterface.tsx, the tables annotations and final_annotations  *)
(* they share, and the role selection of App.                              *)
(*                                                                         *)
(* JavaScript numbers are modelled as exact fractions num/den in lowest    *)
(* terms; den = 0 encodes the non-finite values a division by zero yields  *)
(* (0/0 = NaN, x/0 = +-Infinity).  Rounding of doubles is not modelled.    *)
(***************************************************************************)
EXTENDS Integers, Sequences, FiniteSets, TLC

VARIABLES
    seq1, seq2, labelList, report, fnPc,   \* one call of calculateKappaForCategory
    shownKappa,                            \* the kappa handed to interpretKappa (a number)
    interpretation,                        \* what interpretKappa returned for it (<<>> before the call)
    dbAnnotations,                         \* rows of table annotations
    kcAnnotations,                         \* KappaCalculator: annotations
    kappaResults,                          \* KappaCalculator: kappaResults (<<>> is null)
    kcLoading,                             \* KappaCalculator: loading
    kcFetchPending,                        \* the mount effect's fetchAnnotations has not resolved
    alertText,                             \* text of the last window.alert (<<>> if none)
    kcRun,                                 \* what the last calculateKappa call did (<<>> if none)
    dbFinal,                               \* rows of table final_annotations
    dbComments,                            \* ids of the rows of table comments
    adjPending,                            \* AdjudicatorInterface: requests of fetchData not yet resolved
    adjComments,                           \* AdjudicatorInterface: comments (index -> comment id)
    adjTotalComments,                      \* AdjudicatorInterface: totalComments
    adjAnnotations,                        \* AdjudicatorInterface: annotations (comment id -> rows)
    adjFinalAnnotations,                   \* AdjudicatorInterface: finalAnnotations (comment id -> row)
    adjIndex,                              \* AdjudicatorInterface: currentCommentIndex
    adjNav,                                \* index the navigation effect set at its last run (<<>> if none)
    adjLoading,                            \* AdjudicatorInterface: loading
    adjWriteError,                         \* whether the last write request of handleSubmit failed (<<>> if none)
    annotationsSeq,                        \* next value of the id sequence of table annotations
    annRole,                               \* AnnotationInterface, per session: currentRole
    annPc,                                 \* per session: "mount" until the mount effect has run
    annComments,                           \* per session: comments (index -> comment id)
    annTotalComments,                      \* per session: totalComments
    annAnnotations,                        \* per session: annotations (comment id -> row)
    annIndex,                              \* per session: currentCommentIndex
    annLoading,                            \* per session: loading
    annWriteError,                         \* per session: whether its last write request failed (<<>> if none)
    currentRole                            \* App: currentRole of the browser (<<>> is null)

adjVars == <<dbFinal, dbComments, adjPending, adjComments, adjTotalComments, adjAnnotations,
             adjFinalAnnotations, adjIndex, adjNav, adjLoading, adjWriteError>>

annVars == <<annotationsSeq, annRole, annPc, annComments, annTotalComments,
             annAnnotations, annIndex, annLoading, annWriteError>>

appVars == <<currentRole>>

vars == <<seq1, seq2, labelList, report, fnPc, shownKappa, interpretation, dbAnnotations,
          kcAnnotations, kappaResults, kcLoading, kcFetchPending, alertText, kcRun,
          adjVars, annVars, appVars>>

fnVars == <<seq1, seq2, labelList, report, fnPc, shownKappa, interpretation>>
kcVars == <<kcAnnotations, kappaResults, kcLoading, kcFetchPending, alertText, kcRun>>
sysVars == <<dbAnnotations, kcVars, adjVars, annVars, appVars>>

\* ---------------------------------------------------------------- bounds
MaxN == 4
MaxAnyN == 2
NumComments == 2

\* ---------------------------------------------------------------- numbers
Abs(x) == IF x < 0 THEN -x ELSE x

Sign(x) == IF x < 0 THEN -1 ELSE IF x > 0 THEN 1 ELSE 0

RECURSIVE GCD(_, _)
GCD(a, b) == IF b = 0 THEN a ELSE GCD(b, a % b)

\* the number num/den in canonical form
Norm(num, den) ==
    IF den = 0 THEN [num |-> Sign(num), den |-> 0]
    ELSE LET g == GCD(Abs(num), Abs(den))
             s == Sign(den)
         IN [num |-> (s * num) \div g, den |-> (s * den) \div g]

Int2Num(i) == [num |-> i, den |-> 1]
Zero == Int2Num(0)
One == Int2Num(1)
NaN == [num |-> 0, den |-> 0]
IsNaN(a) == a.den = 0 /\ a.num = 0
IsFinite(a) == a.den # 0

NumNeg(a) == [num |-> -a.num, den |-> a.den]

NumAdd(a, b) ==
    IF IsNaN(a) \/ IsNaN(b) THEN NaN
    ELSE IF a.den = 0 /\ b.den = 0 THEN (IF a = b THEN a ELSE NaN)
    ELSE Norm(a.num * b.den + b.num * a.den, a.den * b.den)

NumSub(a, b) == NumAdd(a, NumNeg(b))

NumMul(a, b) == Norm(a.num * b.num, a.den * b.den)

NumDiv(a, b) == Norm(a.num * b.den, a.den * b.num)

\* a === b and a < b of JavaScript: false whenever an operand is NaN
NumEq(a, b) == ~IsNaN(a) /\ ~IsNaN(b) /\ a = b

NumLt(a, b) ==
    IF IsNaN(a) \/ IsNaN(b) THEN FALSE
    ELSE IF a.den = 0 \/ b.den = 0
         THEN (IF a.den = 0 THEN a.num ELSE 0) < (IF b.den = 0 THEN b.num ELSE 0)
    ELSE a.num * b.den < b.num * a.den

NumLe(a, b) == NumLt(a, b) \/ NumEq(a, b)

\* ---------------------------------------------------------------- labels
sentimentLabels == <<"positive", "negative", "neutral">>
discourseLabels == <<"partisan", "objective", "non_polarized">>

Range(s) == {s[i] : i \in 1..Len(s)}

\* Array.prototype.indexOf: 0-based position of the first match, -1 if none
indexOf(labels, x) ==
    IF \E j \in 1..Len(labels) : labels[j] = x
    THEN (CHOOSE j \in 1..Len(labels) :
             labels[j] = x /\ \A h \in 1..(j - 1) : labels[h] # x) - 1
    ELSE -1

\* ---------------------------------------------------------------- calculateKappaForCategory
\* Array(k).fill(0).map(() => Array(k).fill(0))
zeroMatrix(labels) ==
    [r \in 0..(Len(labels) - 1) |-> [c \in 0..(Len(labels) - 1) |-> 0]]

\* loopBody with row and column index exchanged
loopBodySwapped(acc, i, annotator1, annotator2, labels) ==
    LET idx1 == indexOf(labels, annotator1[i + 1])
        idx2 == indexOf(labels, annotator2[i + 1])
    IN IF idx2 = -1 THEN [acc EXCEPT !.threw = TRUE]
       ELSE [acc EXCEPT
               !.matrix = IF idx1 = -1 THEN @
                          ELSE [@ EXCEPT ![idx2][idx1] = @ + 1],
               !.observedAgreements = IF idx1 = idx2 THEN @ + 1 ELSE @]

\* loopBody over a matrix whose rows are one shared array
\* (Array(k).fill(Array(k).fill(0))): the increment shows in every row
loopBodySharedRow(acc, i, annotator1, annotator2, labels) ==
    LET idx1 == indexOf(labels, annotator1[i + 1])
        idx2 == indexOf(labels, annotator2[i + 1])
    IN IF idx1 = -1 THEN [acc EXCEPT !.threw = TRUE]
       ELSE [acc EXCEPT
               !.matrix = IF idx2 = -1 THEN @
                          ELSE [r \in DOMAIN @ |-> [@[r] EXCEPT ![idx2] = @ + 1]],
               !.observedAgreements = IF idx1 = idx2 THEN @ + 1 ELSE @]

\* loopBody with observedAgreements++ outside the if
loopBodyAlwaysAgree(acc, i, annotator1, annotator2, labels) ==
    LET idx1 == indexOf(labels, annotator1[i + 1])
        idx2 == indexOf(labels, annotator2[i + 1])
    IN IF idx1 = -1 THEN [acc EXCEPT !.threw = TRUE]
       ELSE [acc EXCEPT
               !.matrix = IF idx2 = -1 THEN @
                          ELSE [@ EXCEPT ![idx1][idx2] = @ + 1],
               !.observedAgreements = @ + 1]

\* body of the for loop for index i (0-based); matrix[-1] is undefined, so
\* idx1 = -1 throws a TypeError; idx2 = -1 only sets the non-index property
\* "-1" of the row, which neither reduce nor map ever visit
loopBody(acc, i, annotator1, annotator2, labels) ==
    LET idx1 == indexOf(labels, annotator1[i + 1])
        idx2 == indexOf(labels, annotator2[i + 1])
    IN IF idx1 = -1 THEN [acc EXCEPT !.threw = TRUE]
       ELSE [acc EXCEPT
               !.matrix = IF idx2 = -1 THEN @
                          ELSE [@ EXCEPT ![idx1][idx2] = @ + 1],
               !.observedAgreements = IF idx1 = idx2 THEN @ + 1 ELSE @]

RECURSIVE countLoop(_, _, _, _, _)
countLoop(acc, i, annotator1, annotator2, labels) ==
    IF i >= Len(annotator1) \/ acc.threw THEN acc
    ELSE countLoop(loopBody(acc, i, annotator1, annotator2, labels),
                   i + 1, annotator1, annotator2, labels)

\* arr.reduce((sum, x) => sum + x, 0) over the indices 0..k-1 of f
RECURSIVE sumUpTo(_, _)
sumUpTo(f, k) == IF k < 0 THEN 0 ELSE sumUpTo(f, k - 1) + f[k]

rowSum(matrix, idx, k) == sumUpTo(matrix[idx], k - 1)
colSum(matrix, idx, k) == sumUpTo([r \in 0..(k - 1) |-> matrix[r][idx]], k - 1)

\* observedAgreementOf dividing by n + 1
observedAgreementOffByOne(observedAgreements, n) ==
    NumDiv(Int2Num(observedAgreements), Int2Num(n + 1))

observedAgreementOf(observedAgreements, n) ==
    NumDiv(Int2Num(observedAgreements), Int2Num(n))

\* marginal1Of summing columns as marginal2Of does
marginal1OfColumns(matrix, labels, n) ==
    [idx \in 0..(Len(labels) - 1) |->
        NumDiv(Int2Num(colSum(matrix, idx, Len(labels))), Int2Num(n))]

marginal1Of(matrix, labels, n) ==
    [idx \in 0..(Len(labels) - 1) |->
        NumDiv(Int2Num(rowSum(matrix, idx, Len(labels))), Int2Num(n))]

\* marginal2Of summing rows as marginal1Of does
marginal2OfRows(matrix, labels, n) ==
    [idx \in 0..(Len(labels) - 1) |->
        NumDiv(Int2Num(rowSum(matrix, idx, Len(labels))), Int2Num(n))]

marginal2Of(matrix, labels, n) ==
    [idx \in 0..(Len(labels) - 1) |->
        NumDiv(Int2Num(colSum(matrix, idx, Len(labels))), Int2Num(n))]

\* marginal1.reduce((sum, p1, idx) => sum + p1 * marginal2[idx], 0)
RECURSIVE expectedAgreementUpTo(_, _, _)
expectedAgreementUpTo(marginal1, marginal2, k) ==
    IF k < 0 THEN Zero
    ELSE NumAdd(expectedAgreementUpTo(marginal1, marginal2, k - 1),
                NumMul(marginal1[k], marginal2[k]))

expectedAgreementOf(marginal1, marginal2, labels) ==
    expectedAgreementUpTo(marginal1, marginal2, Len(labels) - 1)

\* kappaOf without the expectedAgreement === 1 guard
kappaOfUnguarded(observedAgreement, expectedAgreement) ==
    NumDiv(NumSub(observedAgreement, expectedAgreement),
           NumSub(One, expectedAgreement))

\* kappaOf with the operands of the numerator exchanged
kappaOfSwapped(observedAgreement, expectedAgreement) ==
    IF NumEq(expectedAgreement, One) THEN One
    ELSE NumDiv(NumSub(expectedAgreement, observedAgreement),
                NumSub(One, expectedAgreement))

\* kappaOf returning 0 in the degenerate case
kappaOfDegenerateZero(observedAgreement, expectedAgreement) ==
    IF NumEq(expectedAgreement, One) THEN Zero
    ELSE NumDiv(NumSub(observedAgreement, expectedAgreement),
                NumSub(One, expectedAgreement))

kappaOf(observedAgreement, expectedAgreement) ==
    IF NumEq(expectedAgreement, One) THEN One
    ELSE NumDiv(NumSub(observedAgreement, expectedAgreement),
                NumSub(One, expectedAgreement))

calculateKappaForCategory(annotator1, annotator2, labels) ==
    LET n == Len(annotator1)
        acc == countLoop([matrix |-> zeroMatrix(labels), observedAgreements |-> 0,
                          threw |-> FALSE], 0, annotator1, annotator2, labels)
        observedAgreement == observedAgreementOf(acc.observedAgreements, n)
        marginal1 == marginal1Of(acc.matrix, labels, n)
        marginal2 == marginal2Of(acc.matrix, labels, n)
        expectedAgreement == expectedAgreementOf(marginal1, marginal2, labels)
        kappa == kappaOf(observedAgreement, expectedAgreement)
    IN IF acc.threw
       THEN [threw |-> TRUE, observedAgreement |-> NaN, expectedAgreement |-> NaN,
             kappa |-> NaN, matrix |-> acc.matrix]
       ELSE [threw |-> FALSE, observedAgreement |-> observedAgreement,
             expectedAgreement |-> expectedAgreement, kappa |-> kappa,
             matrix |-> acc.matrix]

NoReport == [threw |-> FALSE, observedAgreement |-> NaN, expectedAgreement |-> NaN,
             kappa |-> NaN, matrix |-> zeroMatrix(<<>>)]

\* ---------------------------------------------------------------- one call of the function
\* no AdjudicatorInterface is mounted
AdjIdle ==
    /\ dbFinal = {}
    /\ dbComments = 1..NumComments
    /\ adjPending = {}
    /\ adjComments = <<>>
    /\ adjTotalComments = 0
    /\ adjAnnotations = <<>>
    /\ adjFinalAnnotations = <<>>
    /\ adjIndex = 0
    /\ adjNav = <<>>
    /\ adjLoading = FALSE
    /\ adjWriteError = <<>>

\* no AnnotationInterface is mounted
AnnIdle ==
    /\ annotationsSeq = 1
    /\ annRole = <<>>
    /\ annPc = <<>>
    /\ annComments = <<>>
    /\ annTotalComments = <<>>
    /\ annAnnotations = <<>>
    /\ annIndex = <<>>
    /\ annLoading = <<>>
    /\ annWriteError = <<>>

SysIdle ==
    /\ AdjIdle
    /\ AnnIdle
    /\ currentRole = <<>>
    /\ dbAnnotations = {}
    /\ kcAnnotations = <<>>
    /\ kappaResults = <<>>
    /\ kcLoading = FALSE
    /\ kcFetchPending = FALSE
    /\ alertText = <<>>
    /\ kcRun = <<>>

InitKappa ==
    /\ fnPc = "ready"
    /\ report = NoReport
    /\ shownKappa = Zero
    /\ interpretation = <<>>
    /\ labelList \in {sentimentLabels, discourseLabels}
    /\ \E n \in 0..MaxN :
          /\ seq1 \in [1..n -> Range(labelList)]
          /\ seq2 \in [1..n -> Range(labelList)]
    /\ SysIdle

CallKappaForCategory ==
    /\ fnPc = "ready"
    /\ report' = calculateKappaForCategory(seq1, seq2, labelList)
    /\ fnPc' = "done"
    /\ UNCHANGED <<seq1, seq2, labelList, shownKappa, interpretation>>
    /\ UNCHANGED sysVars

NextKappa == CallKappaForCategory

SpecKappa == InitKappa /\ [][NextKappa]_vars

\* the same call on sequences that may hold a string outside the label list
UnknownLabel == "unknown"

InitKappaAny ==
    /\ fnPc = "ready"
    /\ report = NoReport
    /\ shownKappa = Zero
    /\ interpretation = <<>>
    /\ labelList \in {sentimentLabels, discourseLabels}
    /\ \E n \in 0..MaxAnyN :
          /\ seq1 \in [1..n -> Range(labelList) \cup {UnknownLabel}]
          /\ seq2 \in [1..n -> Range(labelList) \cup {UnknownLabel}]
    /\ SysIdle

SpecKappaAny == InitKappaAny /\ [][NextKappa]_vars

\* ---------------------------------------------------------------- interpretKappa
\* interpretKappa with <= in place of <
interpretKappaUpperInclusive(kappa) ==
    IF NumLe(kappa, Zero) THEN "Poor (worse than chance)"
    ELSE IF NumLe(kappa, Norm(20, 100)) THEN "Slight"
    ELSE IF NumLe(kappa, Norm(40, 100)) THEN "Fair"
    ELSE IF NumLe(kappa, Norm(60, 100)) THEN "Moderate"
    ELSE IF NumLe(kappa, Norm(80, 100)) THEN "Substantial"
    ELSE "Almost Perfect"

\* the literals 0.20, 0.40, 0.60, 0.80 are the doubles nearest to the
\* hundredths they name, and so is a kappa that is given in hundredths:
\* comparing them as doubles gives what comparing the fractions gives
interpretKappa(kappa) ==
    IF NumLt(kappa, Zero) THEN "Poor (worse than chance)"
    ELSE IF NumLt(kappa, Norm(20, 100)) THEN "Slight"
    ELSE IF NumLt(kappa, Norm(40, 100)) THEN "Fair"
    ELSE IF NumLt(kappa, Norm(60, 100)) THEN "Moderate"
    ELSE IF NumLt(kappa, Norm(80, 100)) THEN "Substantial"
    ELSE "Almost Perfect"

\* the kappas -1.00, -0.99, ..., 0.99, 1.00
Hundredths == {Norm(h, 100) : h \in -100..100}

InitInterpret ==
    /\ seq1 = <<>>
    /\ seq2 = <<>>
    /\ labelList = sentimentLabels
    /\ report = NoReport
    /\ fnPc = "idle"
    /\ shownKappa \in Hundredths
    /\ interpretation = <<>>
    /\ SysIdle

CallInterpretKappa ==
    /\ interpretation = <<>>
    /\ interpretation' = <<interpretKappa(shownKappa)>>
    /\ UNCHANGED <<seq1, seq2, labelList, report, fnPc, shownKappa>>
    /\ UNCHANGED sysVars

NextInterpret == CallInterpretKappa

SpecInterpret == InitInterpret /\ [][NextInterpret]_vars

\* ---------------------------------------------------------------- table annotations
Comments == 1..NumComments
Roles == <<"annotator1", "annotator2">>

\* labels the stored judgments are drawn from
StoredSentiments == {"positive", "negative"}
StoredDiscourses == {"partisan", "non_polarized"}

roleIndex(r) == indexOf(Roles, r)

\* a row of annotations; created_at is read by nothing and left out
Annotation(id, comment_id, annotator_role, sentiment, discourse_polarization) ==
    [id |-> id, comment_id |-> comment_id, annotator_role |-> annotator_role,
     sentiment |-> sentiment, discourse_polarization |-> discourse_polarization]

\* the tables UNIQUE(comment_id, annotator_role) allows over the stored labels,
\* the SERIAL ids distinct
PossibleTables ==
    LET Cell == Comments \X Range(Roles)
        Absent == <<>>
        Filled == StoredSentiments \X StoredDiscourses
    IN {{Annotation(2 * (c[1] - 1) + roleIndex(c[2]) + 1, c[1], c[2], f[c][1], f[c][2]) :
            c \in {x \in Cell : f[x] # Absent}} :
        f \in [Cell -> {Absent} \cup Filled]}

\* .order('comment_id, annotator_role')
RECURSIVE orderRows(_)
orderRows(rows) ==
    IF rows = {} THEN <<>>
    ELSE LET first == CHOOSE x \in rows : \A y \in rows :
                          \/ x.comment_id < y.comment_id
                          \/ /\ x.comment_id = y.comment_id
                             /\ roleIndex(x.annotator_role) <= roleIndex(y.annotator_role)
         IN <<first>> \o orderRows(rows \ {first})

\* ---------------------------------------------------------------- KappaCalculator
NoPairsMessage == "No complete annotation pairs found for both annotators."

\* the forEach of calculateKappa: comment_id -> {annotator1?, annotator2?},
\* an absent member is <<>>, a present one <<row>>
RECURSIVE groupByComment(_, _, _)
groupByComment(commentAnnotations, annotations, i) ==
    IF i > Len(annotations) THEN commentAnnotations
    ELSE LET annotation == annotations[i]
             key == annotation.comment_id
             entry == IF key \in DOMAIN commentAnnotations
                      THEN commentAnnotations[key]
                      ELSE [annotator1 |-> <<>>, annotator2 |-> <<>>]
             updated == [entry EXCEPT ![annotation.annotator_role] = <<annotation>>]
         IN groupByComment(
                [k \in DOMAIN commentAnnotations \cup {key} |->
                    IF k = key THEN updated ELSE commentAnnotations[k]],
                annotations, i + 1)

\* Object.values of an object with integer keys: ascending key order
RECURSIVE objectValues(_)
objectValues(obj) ==
    IF DOMAIN obj = {} THEN <<>>
    ELSE LET k == CHOOSE x \in DOMAIN obj : \A y \in DOMAIN obj : x <= y
         IN <<obj[k]>> \o objectValues([j \in DOMAIN obj \ {k} |-> obj[j]])

\* the filter predicate with || in place of &&
isCompletePairEither(pair) == pair.annotator1 # <<>> \/ pair.annotator2 # <<>>

\* the filter predicate that also asks the two discourse labels to agree
isCompletePairSameDiscourse(pair) ==
    /\ pair.annotator1 # <<>> /\ pair.annotator2 # <<>>
    /\ pair.annotator1[1].discourse_polarization = pair.annotator2[1].discourse_polarization

\* pair => pair.annotator1 && pair.annotator2
isCompletePair(pair) == pair.annotator1 # <<>> /\ pair.annotator2 # <<>>

completePairsOf(commentAnnotations) ==
    SelectSeq(objectValues(commentAnnotations), isCompletePair)

\* the length test that never holds
hasNoPairsNever(completePairs) == FALSE

\* completePairs.length === 0
hasNoPairs(completePairs) == Len(completePairs) = 0

\* pair.annotator1!.sentiment of an absent member reads a property of undefined
derefUndefined(completePairs) ==
    \E i \in 1..Len(completePairs) :
        completePairs[i].annotator1 = <<>> \/ completePairs[i].annotator2 = <<>>

\* the map that reads annotator1 whatever the role asked for
mapLabelsFirstRole(completePairs, annotator_role, field) ==
    [i \in 1..Len(completePairs) |-> completePairs[i]["annotator1"][1][field]]

\* completePairs.map(pair => pair[role]!.field)
mapLabels(completePairs, annotator_role, field) ==
    [i \in 1..Len(completePairs) |-> completePairs[i][annotator_role][1][field]]

\* { ...kappa, labels }
withLabels(kappa, labels) ==
    [observedAgreement |-> kappa.observedAgreement,
     expectedAgreement |-> kappa.expectedAgreement,
     kappa |-> kappa.kappa, matrix |-> kappa.matrix, labels |-> labels]

\* the four sequences calculateKappa hands to calculateKappaForCategory
argumentsOf(completePairs) ==
    [sentiment1 |-> mapLabels(completePairs, "annotator1", "sentiment"),
     sentiment2 |-> mapLabels(completePairs, "annotator2", "sentiment"),
     discourse1 |-> mapLabels(completePairs, "annotator1", "discourse_polarization"),
     discourse2 |-> mapLabels(completePairs, "annotator2", "discourse_polarization")]

\* record of a calculateKappa call: the snapshot it read, its completePairs,
\* the number of calls of calculateKappaForCategory it made, the sequences it
\* passed (<<>> if it made no call), and kappaResults as it was when the
\* handler started
RunOf(completePairs, calls) ==
    <<[annotations |-> kcAnnotations, completePairs |-> completePairs,
       calls |-> calls,
       passed |-> IF calls = 0 THEN <<>> ELSE <<argumentsOf(completePairs)>>,
       before |-> kappaResults]>>

\* an exception leaves the handler before setLoading(false): the queued
\* setLoading(true) is what gets committed
Throws(completePairs, calls) ==
    /\ kcLoading' = TRUE
    /\ kcRun' = RunOf(completePairs, calls)
    /\ UNCHANGED <<kappaResults, alertText>>

calculateKappa ==
    LET commentAnnotations == groupByComment(<<>>, kcAnnotations, 1)
        completePairs == completePairsOf(commentAnnotations)
    IN IF hasNoPairs(completePairs)
       THEN /\ alertText' = <<NoPairsMessage>>
            /\ kcLoading' = FALSE
            /\ kcRun' = RunOf(completePairs, 0)
            /\ UNCHANGED kappaResults
       ELSE IF derefUndefined(completePairs) THEN Throws(completePairs, 0)
       ELSE LET sentimentKappa == calculateKappaForCategory(
                    mapLabels(completePairs, "annotator1", "sentiment"),
                    mapLabels(completePairs, "annotator2", "sentiment"),
                    sentimentLabels)
                discourseKappa == calculateKappaForCategory(
                    mapLabels(completePairs, "annotator1", "discourse_polarization"),
                    mapLabels(completePairs, "annotator2", "discourse_polarization"),
                    discourseLabels)
            IN IF sentimentKappa.threw THEN Throws(completePairs, 1)
               ELSE IF discourseKappa.threw THEN Throws(completePairs, 2)
               ELSE /\ kappaResults' =
                          <<[sentiment |-> withLabels(sentimentKappa, sentimentLabels),
                             discoursePolarization |->
                                 withLabels(discourseKappa, discourseLabels)]>>
                    /\ kcLoading' = FALSE
                    /\ kcRun' = RunOf(completePairs, 2)
                    /\ UNCHANGED alertText

\* getAnnotationCounts counting the comments that have any judgment
getAnnotationCountsAnyRole(annotations) ==
    LET commentCounts ==
            [c \in {annotations[i].comment_id : i \in 1..Len(annotations)} |->
                {annotations[i].annotator_role :
                    i \in {j \in 1..Len(annotations) : annotations[j].comment_id = c}}]
    IN [totalComments |-> Cardinality(DOMAIN commentCounts),
        completePairs |-> Cardinality({c \in DOMAIN commentCounts :
                                          Cardinality(commentCounts[c]) >= 1})]

\* getAnnotationCounts: commentCounts maps a comment id to the Set of the
\* roles of its rows; completePairs counts the Sets of size 2
getAnnotationCounts(annotations) ==
    LET commentCounts ==
            [c \in {annotations[i].comment_id : i \in 1..Len(annotations)} |->
                {annotations[i].annotator_role :
                    i \in {j \in 1..Len(annotations) : annotations[j].comment_id = c}}]
    IN [totalComments |-> Cardinality(DOMAIN commentCounts),
        completePairs |-> Cardinality({c \in DOMAIN commentCounts :
                                          Cardinality(commentCounts[c]) = 2})]

\* disabled={loading || completePairs === 0} of the Calculate button
calculateDisabled == kcLoading \/ getAnnotationCounts(kcAnnotations).completePairs = 0

\* the mount effect's fetchAnnotations resolving: data is the ordered table,
\* or null when the request failed
fetchAnnotations ==
    /\ kcFetchPending
    /\ kcFetchPending' = FALSE
    /\ \/ kcAnnotations' = orderRows(dbAnnotations)
       \/ UNCHANGED kcAnnotations
    /\ UNCHANGED <<dbAnnotations, kappaResults, kcLoading, alertText, kcRun>>
    /\ UNCHANGED <<fnVars, adjVars, annVars, appVars>>

\* the handler, called on the state the component is in
KcCalculateKappa ==
    /\ calculateKappa
    /\ UNCHANGED <<dbAnnotations, kcAnnotations, kcFetchPending>>
    /\ UNCHANGED <<fnVars, adjVars, annVars, appVars>>

FnIdle ==
    /\ seq1 = <<>>
    /\ seq2 = <<>>
    /\ labelList = sentimentLabels
    /\ report = NoReport
    /\ fnPc = "idle"
    /\ shownKappa = Zero
    /\ interpretation = <<>>

\* KappaCalculator just mounted over a table some annotators have filled
InitCalc ==
    /\ FnIdle
    /\ AdjIdle
    /\ AnnIdle
    /\ currentRole = <<"adjudicator">>
    /\ dbAnnotations \in PossibleTables
    /\ kcAnnotations = <<>>
    /\ kappaResults = <<>>
    /\ kcLoading = FALSE
    /\ kcFetchPending = TRUE
    /\ alertText = <<>>
    /\ kcRun = <<>>

NextCalc == fetchAnnotations \/ KcCalculateKappa

SpecCalc == InitCalc /\ [][NextCalc]_vars

\* ---------------------------------------------------------------- table final_annotations
\* a row of final_annotations; created_at is read by nothing and left out
FinalAnnotation(id, comment_id, final_sentiment, final_discourse_polarization) ==
    [id |-> id, comment_id |-> comment_id, final_sentiment |-> final_sentiment,
     final_discourse_polarization |-> final_discourse_polarization]

\* labels the adjudicator picks in the form
FinalLabels == {<<"positive", "partisan">>, <<"negative", "objective">>}

\* id SERIAL: a value no row of the table has (rows are never deleted; the
\* values a failed insert consumes are not observable)
nextSerial(table) ==
    IF table = {} THEN 1
    ELSE 1 + (CHOOSE m \in {x.id : x \in table} : \A x \in table : x.id <= m)

\* insert without the UNIQUE(comment_id) constraint
insertFinalNoUnique(table, comment_id, final_sentiment, final_discourse_polarization) ==
    LET data == FinalAnnotation(nextSerial(table), comment_id,
                                final_sentiment, final_discourse_polarization)
    IN [error |-> FALSE, data |-> <<data>>, table |-> table \cup {data}]

\* .insert([...]).select().single() on final_annotations: UNIQUE(comment_id)
\* rejects a second row for the comment
insertFinal(table, comment_id, final_sentiment, final_discourse_polarization) ==
    LET data == FinalAnnotation(nextSerial(table), comment_id,
                                final_sentiment, final_discourse_polarization)
    IN IF \E x \in table : x.comment_id = comment_id
       THEN [error |-> TRUE, data |-> <<>>, table |-> table]
       ELSE [error |-> FALSE, data |-> <<data>>, table |-> table \cup {data}]

\* .update({...}).eq('id', id) on final_annotations
updateFinal(table, id, final_sentiment, final_discourse_polarization) ==
    {IF x.id = id
     THEN [x EXCEPT !.final_sentiment = final_sentiment,
                    !.final_discourse_polarization = final_discourse_polarization]
     ELSE x : x \in table}

\* ---------------------------------------------------------------- AdjudicatorInterface
BatchSize == 100

\* the judgments of one comment in the tables the adjudicator is mounted over:
\* none, one, two equal, two differing in discourse, two differing in sentiment
AdjJudgmentOptions ==
    {<< <<>>, <<>> >>,
     << <<"positive", "partisan">>, <<>> >>,
     << <<"positive", "partisan">>, <<"positive", "partisan">> >>,
     << <<"positive", "partisan">>, <<"positive", "objective">> >>,
     << <<"positive", "partisan">>, <<"negative", "partisan">> >>}

AdjTables ==
    {{Annotation(2 * (c - 1) + r, c, Roles[r], f[c][r][1], f[c][r][2]) :
         <<c, r>> \in {x \in Comments \X {1, 2} : f[x[1]][x[2]] # <<>>}} :
     f \in [Comments -> AdjJudgmentOptions]}

\* the final decisions an earlier adjudicator session may have left
EarlierFinalTables ==
    {{FinalAnnotation(c, c, "positive", "partisan") : c \in S} : S \in SUBSET Comments}

hasDisagreementBoth(annotations) ==
    IF Len(annotations) < 2 THEN FALSE
    ELSE /\ annotations[1].sentiment # annotations[2].sentiment
         /\ annotations[1].discourse_polarization # annotations[2].discourse_polarization

hasDisagreement(annotations) ==
    IF Len(annotations) < 2 THEN FALSE
    ELSE \/ annotations[1].sentiment # annotations[2].sentiment
         \/ annotations[1].discourse_polarization # annotations[2].discourse_polarization

\* annotations[comment.id] || []
commentAnnotationsOf(annotations, id) ==
    IF id \in DOMAIN annotations THEN annotations[id] ELSE <<>>

\* predicate of the first findIndex of the navigation effect
isDisagreementTarget(comment, annotations, finalAnnotations) ==
    /\ Len(commentAnnotationsOf(annotations, comment)) = 2
    /\ comment \notin DOMAIN finalAnnotations
    /\ hasDisagreement(commentAnnotationsOf(annotations, comment))

\* isUnfinished without the test of finalAnnotations
isUnfinishedIgnoringFinal(comment, annotations, finalAnnotations) ==
    Len(commentAnnotationsOf(annotations, comment)) = 2

\* predicate of the second findIndex of the navigation effect
isUnfinished(comment, annotations, finalAnnotations) ==
    /\ Len(commentAnnotationsOf(annotations, comment)) = 2
    /\ comment \notin DOMAIN finalAnnotations

\* comments.findIndex over the set of indices that satisfy the predicate:
\* the lowest one, -1 if there is none
findIndex(matching) ==
    IF matching = {} THEN -1
    ELSE CHOOSE i \in matching : \A j \in matching : i <= j

\* the navigation effect: the index it hands to setCurrentCommentIndex, <<>>
\* when it sets none
navigationTarget(comments, annotations, finalAnnotations, totalComments) ==
    IF totalComments > 0 /\ DOMAIN annotations # {}
    THEN LET firstDisagreementIndex == findIndex({i \in DOMAIN comments :
                     isDisagreementTarget(comments[i], annotations, finalAnnotations)})
             firstUnfinishedIndex == findIndex({i \in DOMAIN comments :
                     isUnfinished(comments[i], annotations, finalAnnotations)})
         IN IF firstDisagreementIndex # -1 THEN <<firstDisagreementIndex>>
            ELSE IF firstUnfinishedIndex # -1 THEN <<firstUnfinishedIndex>>
            ELSE <<>>
    ELSE <<>>

\* the component state after a handler: the new values are committed and,
\* when a dependency of the navigation effect got a new value or reference,
\* the effect runs and may overwrite the index the handler set
AdjCommit(comments, totalComments, annotations, finalAnnotations, index, effectRuns) ==
    /\ adjComments' = comments
    /\ adjTotalComments' = totalComments
    /\ adjAnnotations' = annotations
    /\ adjFinalAnnotations' = finalAnnotations
    /\ IF effectRuns
       THEN LET target == navigationTarget(comments, annotations, finalAnnotations,
                                           totalComments)
            IN /\ adjNav' = target
               /\ adjIndex' = IF target # <<>> THEN target[1] ELSE index
       ELSE /\ adjNav' = adjNav
            /\ adjIndex' = index

\* .from('comments').select('*').order('id').range(startIndex, startIndex + batchSize - 1)
\* merged into the comments array; the ids of the table are 1, 2, ... without
\* gaps, so the row at position i has id i + 1
loadCommentsBatch(comments, startIndex) ==
    LET data == {k \in 0..(BatchSize - 1) : startIndex + k + 1 \in dbComments}
    IN [i \in DOMAIN comments \cup {startIndex + k : k \in data} |->
           IF i - startIndex \in data THEN i + 1 ELSE comments[i]]

\* the reduce of fetchAnnotations: comment id -> its rows in the order of data
annotationsMapOf(data) ==
    [c \in {data[i].comment_id : i \in 1..Len(data)} |->
        SelectSeq(data, LAMBDA a : a.comment_id = c)]

\* the reduce of fetchFinalAnnotations: comment id -> row
finalAnnotationsMapOf(table) ==
    [c \in {x.comment_id : x \in table} |-> CHOOSE x \in table : x.comment_id = c]

\* fetchInitialData, first request: the count, null when the request failed
\* (ok is FALSE)
AdjFetchCount(ok) ==
    /\ "count" \in adjPending
    /\ adjPending' = (adjPending \ {"count"}) \cup {"batch"}
    /\ LET count == IF ok THEN Cardinality(dbComments) ELSE 0
       IN AdjCommit(adjComments, count, adjAnnotations, adjFinalAnnotations, adjIndex,
                    count # adjTotalComments)
    /\ UNCHANGED <<dbFinal, dbComments, dbAnnotations, kcVars, fnVars, annVars, appVars,
                 adjLoading, adjWriteError>>

\* fetchInitialData, second request: loadCommentsBatch(0, 100)
AdjFetchBatch(ok) ==
    /\ "batch" \in adjPending
    /\ adjPending' = adjPending \ {"batch"}
    /\ IF ok
       THEN AdjCommit(loadCommentsBatch(adjComments, 0), adjTotalComments, adjAnnotations,
                      adjFinalAnnotations, adjIndex, TRUE)
       ELSE UNCHANGED <<adjComments, adjTotalComments, adjAnnotations,
                      adjFinalAnnotations, adjIndex, adjNav>>
    /\ UNCHANGED <<dbFinal, dbComments, dbAnnotations, kcVars, fnVars, annVars, appVars,
                 adjLoading, adjWriteError>>

\* fetchAnnotations that also stores a final decision for the first item whose
\* two judgments agree and that has none
AdjFetchAnnotationsAutoFinal(ok) ==
    /\ "annotations" \in adjPending
    /\ adjPending' = adjPending \ {"annotations"}
    /\ IF ok
       THEN AdjCommit(adjComments, adjTotalComments,
                      annotationsMapOf(orderRows(dbAnnotations)),
                      adjFinalAnnotations, adjIndex, TRUE)
       ELSE UNCHANGED <<adjComments, adjTotalComments, adjAnnotations,
                        adjFinalAnnotations, adjIndex, adjNav>>
    /\ LET agreed == {a \in dbAnnotations :
                        /\ a.annotator_role = "annotator1"
                        /\ \A x \in dbFinal : x.comment_id # a.comment_id
                        /\ \E b \in dbAnnotations :
                              /\ b.annotator_role = "annotator2"
                              /\ b.comment_id = a.comment_id
                              /\ b.sentiment = a.sentiment
                              /\ b.discourse_polarization = a.discourse_polarization}
       IN dbFinal' = dbFinal \cup
              {FinalAnnotation(nextSerial(dbFinal), a.comment_id, a.sentiment,
                               a.discourse_polarization) :
                 a \in {x \in agreed : \A y \in agreed : x.comment_id <= y.comment_id}}
    /\ UNCHANGED <<dbComments, dbAnnotations, kcVars, fnVars, annVars, appVars,
                 adjLoading, adjWriteError>>

\* fetchAnnotations; data is null when the request failed
AdjFetchAnnotations(ok) ==
    /\ "annotations" \in adjPending
    /\ adjPending' = adjPending \ {"annotations"}
    /\ IF ok
       THEN AdjCommit(adjComments, adjTotalComments,
                      annotationsMapOf(orderRows(dbAnnotations)),
                      adjFinalAnnotations, adjIndex, TRUE)
       ELSE UNCHANGED <<adjComments, adjTotalComments, adjAnnotations,
                      adjFinalAnnotations, adjIndex, adjNav>>
    /\ UNCHANGED <<dbFinal, dbComments, dbAnnotations, kcVars, fnVars, annVars, appVars,
                 adjLoading, adjWriteError>>

\* fetchFinalAnnotations; data is null when the request failed
AdjFetchFinalAnnotations(ok) ==
    /\ "finals" \in adjPending
    /\ adjPending' = adjPending \ {"finals"}
    /\ IF ok
       THEN AdjCommit(adjComments, adjTotalComments, adjAnnotations,
                      finalAnnotationsMapOf(dbFinal), adjIndex, TRUE)
       ELSE UNCHANGED <<adjComments, adjTotalComments, adjAnnotations,
                      adjFinalAnnotations, adjIndex, adjNav>>
    /\ UNCHANGED <<dbFinal, dbComments, dbAnnotations, kcVars, fnVars, annVars, appVars,
                 adjLoading, adjWriteError>>

\* goToNext, and handleJumpToComment for a number in 1..totalComments: the
\* batch of a missing target is requested first (it may fail).  When the batch
\* arrives, setComments and setCurrentCommentIndex are either rendered together
\* (the effect then runs last) or one after the other (the index is set last):
\* which one depends on the React version, which the repository does not fix
AdjGoTo(targetIndex) ==
    /\ targetIndex \in 0..(adjTotalComments - 1)
    /\ \/ /\ targetIndex \notin DOMAIN adjComments
          /\ AdjCommit(loadCommentsBatch(adjComments,
                                         (targetIndex \div BatchSize) * BatchSize),
                       adjTotalComments, adjAnnotations, adjFinalAnnotations,
                       targetIndex, TRUE)
       \/ /\ targetIndex \notin DOMAIN adjComments
          /\ adjComments' = loadCommentsBatch(adjComments,
                                              (targetIndex \div BatchSize) * BatchSize)
          /\ adjNav' = navigationTarget(adjComments', adjAnnotations,
                                        adjFinalAnnotations, adjTotalComments)
          /\ adjIndex' = targetIndex
          /\ UNCHANGED <<adjTotalComments, adjAnnotations, adjFinalAnnotations>>
       \/ AdjCommit(adjComments, adjTotalComments, adjAnnotations, adjFinalAnnotations,
                    targetIndex, FALSE)
    /\ UNCHANGED <<adjPending, dbFinal, dbComments, dbAnnotations, kcVars, fnVars, annVars, appVars,
                 adjLoading, adjWriteError>>

AdjGoToNext ==
    /\ adjIndex < adjTotalComments - 1
    /\ AdjGoTo(adjIndex + 1)

AdjGoToPrevious ==
    /\ adjIndex > 0
    /\ AdjCommit(adjComments, adjTotalComments, adjAnnotations, adjFinalAnnotations,
                 adjIndex - 1, FALSE)
    /\ UNCHANGED <<adjPending, dbFinal, dbComments, dbAnnotations, kcVars, fnVars, annVars, appVars,
                 adjLoading, adjWriteError>>

\* the numbers typed into the jump box: every item of a small table, and the
\* items on both sides of the first batch boundary
JumpNumbers == (1..NumComments) \cup {BatchSize, BatchSize + 1}

AdjHandleJumpToComment ==
    \E commentNumber \in JumpNumbers \cap (1..adjTotalComments) : AdjGoTo(commentNumber - 1)

\* the end of a write handler without the catch: an exception leaves the
\* handler before setLoading(false)
loadingAfterWriteUncaught(failed) == failed

\* the end of a write handler (handleSubmit, clearAnnotation): setLoading(false)
\* follows the try / catch, so it is reached whether the request succeeded,
\* returned an error or threw
loadingAfterWrite(failed) == FALSE

AdjWriteDone(failed) ==
    /\ adjLoading' = loadingAfterWrite(failed)
    /\ adjWriteError' = <<failed>>

\* handleSubmit with the labels picked in the form; requestOk is FALSE when
\* the request itself fails
AdjHandleSubmit(labels, requestOk) ==
        /\ adjIndex \in DOMAIN adjComments
        /\ LET currentComment == adjComments[adjIndex]
           IN IF currentComment \in DOMAIN adjFinalAnnotations
              THEN LET currentFinalAnnotation == adjFinalAnnotations[currentComment]
                   IN IF requestOk
                      THEN /\ dbFinal' = updateFinal(dbFinal, currentFinalAnnotation.id,
                                                     labels[1], labels[2])
                           /\ AdjCommit(adjComments, adjTotalComments, adjAnnotations,
                                  [c \in DOMAIN adjFinalAnnotations |->
                                      IF c = currentComment
                                      THEN [currentFinalAnnotation EXCEPT
                                              !.final_sentiment = labels[1],
                                              !.final_discourse_polarization = labels[2]]
                                      ELSE adjFinalAnnotations[c]],
                                  adjIndex, TRUE)
                           /\ AdjWriteDone(FALSE)
                      ELSE /\ UNCHANGED <<dbFinal, adjComments, adjTotalComments,
                                          adjAnnotations, adjFinalAnnotations, adjIndex, adjNav>>
                           /\ AdjWriteDone(TRUE)
              ELSE LET result == insertFinal(dbFinal, currentComment, labels[1], labels[2])
                   IN IF requestOk /\ ~result.error
                      THEN /\ dbFinal' = result.table
                           /\ AdjCommit(adjComments, adjTotalComments, adjAnnotations,
                                  [c \in DOMAIN adjFinalAnnotations \cup {currentComment} |->
                                      IF c = currentComment THEN result.data[1]
                                      ELSE adjFinalAnnotations[c]],
                                  adjIndex, TRUE)
                           /\ AdjWriteDone(FALSE)
                      ELSE /\ UNCHANGED <<dbFinal, adjComments, adjTotalComments,
                                          adjAnnotations, adjFinalAnnotations, adjIndex, adjNav>>
                           /\ AdjWriteDone(TRUE)
        /\ UNCHANGED <<adjPending, dbComments, dbAnnotations, kcVars, fnVars, annVars, appVars>>

KcIdle ==
    /\ kcAnnotations = <<>>
    /\ kappaResults = <<>>
    /\ kcLoading = FALSE
    /\ kcFetchPending = FALSE
    /\ alertText = <<>>
    /\ kcRun = <<>>

\* AdjudicatorInterface just mounted over the tables earlier sessions left
InitAdj ==
    /\ FnIdle
    /\ KcIdle
    /\ AnnIdle
    /\ currentRole = <<"adjudicator">>
    /\ dbAnnotations \in AdjTables
    /\ dbFinal \in EarlierFinalTables
    /\ dbComments = Comments
    /\ adjPending = {"count", "annotations", "finals"}
    /\ adjComments = <<>>
    /\ adjTotalComments = 0
    /\ adjAnnotations = <<>>
    /\ adjFinalAnnotations = <<>>
    /\ adjIndex = 0
    /\ adjNav = <<>>
    /\ adjLoading = FALSE
    /\ adjWriteError = <<>>

NextAdj ==
    \/ \E ok \in BOOLEAN : AdjFetchCount(ok)
    \/ \E ok \in BOOLEAN : AdjFetchBatch(ok)
    \/ \E ok \in BOOLEAN : AdjFetchAnnotations(ok)
    \/ \E ok \in BOOLEAN : AdjFetchFinalAnnotations(ok)
    \/ AdjGoToNext
    \/ AdjGoToPrevious
    \/ AdjHandleJumpToComment
    \/ \E labels \in FinalLabels, requestOk \in BOOLEAN : AdjHandleSubmit(labels, requestOk)

SpecAdj == InitAdj /\ [][NextAdj]_vars

\* the adjudicator mounted over a comments table one row longer than a batch,
\* in which the first and the last comment may have judgments; the adjudicator
\* reads and navigates, no decision is saved
BatchJudgmentOptions ==
    {<< <<>>, <<>> >>,
     << <<"positive", "partisan">>, <<"positive", "partisan">> >>,
     << <<"positive", "partisan">>, <<"positive", "objective">> >>}

BatchTables ==
    {{Annotation(2 * (c - 1) + r, c, Roles[r], f[c][r][1], f[c][r][2]) :
         <<c, r>> \in {x \in {1, BatchSize + 1} \X {1, 2} : f[x[1]][x[2]] # <<>>}} :
     f \in [{1, BatchSize + 1} -> BatchJudgmentOptions]}

InitAdjBatches ==
    /\ FnIdle
    /\ KcIdle
    /\ AnnIdle
    /\ currentRole = <<"adjudicator">>
    /\ dbAnnotations \in BatchTables
    /\ dbFinal = {}
    /\ dbComments = 1..(BatchSize + 1)
    /\ adjPending = {"count", "annotations", "finals"}
    /\ adjComments = <<>>
    /\ adjTotalComments = 0
    /\ adjAnnotations = <<>>
    /\ adjFinalAnnotations = <<>>
    /\ adjIndex = 0
    /\ adjNav = <<>>
    /\ adjLoading = FALSE
    /\ adjWriteError = <<>>

NextAdjBatches ==
    \/ \E ok \in BOOLEAN : AdjFetchCount(ok)
    \/ \E ok \in BOOLEAN : AdjFetchBatch(ok)
    \/ \E ok \in BOOLEAN : AdjFetchAnnotations(ok)
    \/ \E ok \in BOOLEAN : AdjFetchFinalAnnotations(ok)
    \/ AdjGoToNext
    \/ AdjGoToPrevious
    \/ AdjHandleJumpToComment

SpecAdjBatches == InitAdjBatches /\ [][NextAdjBatches]_vars

\* the adjudicator saves a decision for the item the navigation effect has
\* surfaced, and the save succeeds
AdjSaveSurfaced(labels) ==
    /\ adjNav # <<>>
    /\ adjIndex = adjNav[1]
    /\ AdjHandleSubmit(labels, TRUE)

\* the adjudicator over the table that is one row longer than a batch: the
\* judgments do not change, every request succeeds, and the adjudicator does
\* nothing but save a decision for the surfaced item.  Every request that is
\* under way resolves and the adjudicator goes on saving
NextAdjSaves ==
    \/ AdjFetchCount(TRUE)
    \/ AdjFetchBatch(TRUE)
    \/ AdjFetchAnnotations(TRUE)
    \/ AdjFetchFinalAnnotations(TRUE)
    \/ \E labels \in FinalLabels : AdjSaveSurfaced(labels)

SpecAdjSaves == InitAdjBatches /\ [][NextAdjSaves]_vars /\ WF_vars(NextAdjSaves)

\* ---------------------------------------------------------------- AnnotationInterface
\* bound of the id sequence of table annotations: no insert is attempted once
\* the sequence has passed it
MaxId == 2

\* labels an annotator picks in the form
AnnLabels == {<<"positive", "partisan">>, <<"negative", "objective">>}

\* insert without the UNIQUE(comment_id, annotator_role) constraint
insertAnnotationNoUnique(table, id, comment_id, annotator_role, sentiment, discourse_polarization) ==
    LET data == Annotation(id, comment_id, annotator_role, sentiment, discourse_polarization)
    IN [error |-> FALSE, data |-> <<data>>, table |-> table \cup {data}]

\* .insert([...]).select().single() on annotations: UNIQUE(comment_id,
\* annotator_role) rejects a second row of the role for the comment
insertAnnotation(table, id, comment_id, annotator_role, sentiment, discourse_polarization) ==
    LET data == Annotation(id, comment_id, annotator_role, sentiment, discourse_polarization)
    IN IF \E x \in table : x.comment_id = comment_id /\ x.annotator_role = annotator_role
       THEN [error |-> TRUE, data |-> <<>>, table |-> table]
       ELSE [error |-> FALSE, data |-> <<data>>, table |-> table \cup {data}]

\* update that matches the comment of the row instead of its id
updateAnnotationByComment(table, id, sentiment, discourse_polarization) ==
    {IF \E y \in table : y.id = id /\ y.comment_id = x.comment_id
     THEN [x EXCEPT !.sentiment = sentiment,
                    !.discourse_polarization = discourse_polarization]
     ELSE x : x \in table}

\* .update({sentiment, discourse_polarization}).eq('id', id) on annotations;
\* no row with the id is no error
updateAnnotation(table, id, sentiment, discourse_polarization) ==
    {IF x.id = id
     THEN [x EXCEPT !.sentiment = sentiment,
                    !.discourse_polarization = discourse_polarization]
     ELSE x : x \in table}

\* .delete().eq('id', id) on annotations
deleteAnnotation(table, id) == {x \in table : x.id # id}

\* the navigation effect of AnnotationInterface: the first loaded comment
\* without an annotation of the session, <<>> when it sets no index
firstUnannotated(comments, annotations, totalComments) ==
    IF totalComments > 0
    THEN LET firstUnannotatedIndex ==
                 findIndex({i \in DOMAIN comments : comments[i] \notin DOMAIN annotations})
         IN IF firstUnannotatedIndex # -1 THEN <<firstUnannotatedIndex>> ELSE <<>>
    ELSE <<>>

\* the state of session s after a handler: the new values are committed and,
\* when a dependency of the navigation effect got a new value or reference,
\* the effect runs and may overwrite the index the handler set
AnnCommit(s, comments, totalComments, annotations, index, effectRuns) ==
    /\ annComments' = [annComments EXCEPT ![s] = comments]
    /\ annTotalComments' = [annTotalComments EXCEPT ![s] = totalComments]
    /\ annAnnotations' = [annAnnotations EXCEPT ![s] = annotations]
    /\ LET target == firstUnannotated(comments, annotations, totalComments)
       IN annIndex' = [annIndex EXCEPT ![s] =
                          IF effectRuns /\ target # <<>> THEN target[1] ELSE index]

AnnKeep(s) ==
    AnnCommit(s, annComments[s], annTotalComments[s], annAnnotations[s], annIndex[s], FALSE)

\* the reduce of fetchAnnotations: comment id -> the row of the role
roleAnnotationsMapOf(table, annotator_role) ==
    [c \in {x.comment_id : x \in {y \in table : y.annotator_role = annotator_role}} |->
        CHOOSE x \in table : x.comment_id = c /\ x.annotator_role = annotator_role]

\* the mount effect loadDataAndNavigate of session s: fetchInitialData (the
\* count, then loadCommentsBatch(0, 100)) and after it fetchAnnotations; the
\* navigation effect runs on the result.  A request that failed (its flag is
\* FALSE) gives count null, an error, data null
AnnLoadDataAndNavigate(s, countOk, batchOk, annotationsOk) ==
    /\ annPc[s] = "mount"
    /\ annPc' = [annPc EXCEPT ![s] = "done"]
    /\ AnnCommit(s,
                 IF batchOk THEN loadCommentsBatch(annComments[s], 0) ELSE annComments[s],
                 IF countOk THEN Cardinality(dbComments) ELSE 0,
                 IF annotationsOk THEN roleAnnotationsMapOf(dbAnnotations, annRole[s])
                 ELSE annAnnotations[s],
                 annIndex[s], TRUE)
    /\ UNCHANGED <<annotationsSeq, annRole, dbAnnotations, kcVars, fnVars, adjVars, appVars,
                 annLoading, annWriteError>>

AnnWriteDone(s, failed) ==
    /\ annLoading' = [annLoading EXCEPT ![s] = loadingAfterWrite(failed)]
    /\ annWriteError' = [annWriteError EXCEPT ![s] = <<failed>>]

\* handleSubmit of session s with the labels picked in the form; requestOk is
\* FALSE when the request itself fails
AnnHandleSubmit(s, labels, requestOk) ==
        /\ annIndex[s] \in DOMAIN annComments[s]
        /\ LET comment == annComments[s][annIndex[s]]
           IN IF comment \in DOMAIN annAnnotations[s]
              THEN LET currentAnnotation == annAnnotations[s][comment]
                   IN IF requestOk
                      THEN /\ dbAnnotations' = updateAnnotation(dbAnnotations,
                                                   currentAnnotation.id, labels[1], labels[2])
                           /\ annotationsSeq' = annotationsSeq
                           /\ AnnCommit(s, annComments[s], annTotalComments[s],
                                  [annAnnotations[s] EXCEPT ![comment] =
                                      [currentAnnotation EXCEPT
                                          !.sentiment = labels[1],
                                          !.discourse_polarization = labels[2]]],
                                  annIndex[s], TRUE)
                           /\ AnnWriteDone(s, FALSE)
                      ELSE /\ UNCHANGED <<dbAnnotations, annotationsSeq>>
                           /\ AnnKeep(s)
                           /\ AnnWriteDone(s, TRUE)
              ELSE LET result == insertAnnotation(dbAnnotations, annotationsSeq, comment,
                                                  annRole[s], labels[1], labels[2])
                   IN /\ annotationsSeq <= MaxId
                      /\ IF requestOk /\ ~result.error
                         THEN /\ dbAnnotations' = result.table
                              /\ annotationsSeq' = annotationsSeq + 1
                              /\ AnnCommit(s, annComments[s], annTotalComments[s],
                                     [c \in DOMAIN annAnnotations[s] \cup {comment} |->
                                         IF c = comment THEN result.data[1]
                                         ELSE annAnnotations[s][c]],
                                     annIndex[s], TRUE)
                              /\ AnnWriteDone(s, FALSE)
                         ELSE /\ UNCHANGED <<dbAnnotations, annotationsSeq>>
                              /\ AnnKeep(s)
                              /\ AnnWriteDone(s, TRUE)
        /\ UNCHANGED <<annRole, annPc, kcVars, fnVars, adjVars, appVars>>

\* clearAnnotation of session s
AnnClearAnnotation(s, requestOk) ==
        /\ annIndex[s] \in DOMAIN annComments[s]
        /\ annComments[s][annIndex[s]] \in DOMAIN annAnnotations[s]
        /\ LET comment == annComments[s][annIndex[s]]
               currentAnnotation == annAnnotations[s][comment]
           IN IF requestOk
              THEN /\ dbAnnotations' = deleteAnnotation(dbAnnotations, currentAnnotation.id)
                   /\ AnnCommit(s, annComments[s], annTotalComments[s],
                          [c \in DOMAIN annAnnotations[s] \ {comment} |-> annAnnotations[s][c]],
                          annIndex[s], TRUE)
                   /\ AnnWriteDone(s, FALSE)
              ELSE /\ UNCHANGED dbAnnotations
                   /\ AnnKeep(s)
                   /\ AnnWriteDone(s, TRUE)
        /\ UNCHANGED <<annotationsSeq, annRole, annPc, kcVars, fnVars, adjVars, appVars>>

\* goToNext, and handleJumpToComment for a number in 1..totalComments, of
\* session s; the two outcomes of a batch that arrives are as in AdjGoTo
AnnGoTo(s, targetIndex) ==
    /\ targetIndex \in 0..(annTotalComments[s] - 1)
    /\ \/ /\ targetIndex \notin DOMAIN annComments[s]
          /\ AnnCommit(s, loadCommentsBatch(annComments[s],
                                            (targetIndex \div BatchSize) * BatchSize),
                       annTotalComments[s], annAnnotations[s], targetIndex, TRUE)
       \/ /\ targetIndex \notin DOMAIN annComments[s]
          /\ AnnCommit(s, loadCommentsBatch(annComments[s],
                                            (targetIndex \div BatchSize) * BatchSize),
                       annTotalComments[s], annAnnotations[s], targetIndex, FALSE)
       \/ AnnCommit(s, annComments[s], annTotalComments[s], annAnnotations[s],
                    targetIndex, FALSE)
    /\ UNCHANGED <<annotationsSeq, annRole, annPc, dbAnnotations, kcVars, fnVars, adjVars, appVars,
                 annLoading, annWriteError>>

AnnGoToNext(s) ==
    /\ annIndex[s] < annTotalComments[s] - 1
    /\ AnnGoTo(s, annIndex[s] + 1)

AnnGoToPrevious(s) ==
    /\ annIndex[s] > 0
    /\ AnnCommit(s, annComments[s], annTotalComments[s], annAnnotations[s],
                 annIndex[s] - 1, FALSE)
    /\ UNCHANGED <<annotationsSeq, annRole, annPc, dbAnnotations, kcVars, fnVars, adjVars, appVars,
                 annLoading, annWriteError>>

AnnHandleJumpToComment(s) ==
    \E commentNumber \in JumpNumbers \cap (1..annTotalComments[s]) :
        AnnGoTo(s, commentNumber - 1)

\* goToNextUnannotated of session s; batchOk is FALSE when the request of the
\* batch fails.  The retry after loading a batch searches the comments array
\* the handler was created with, so it finds what the first search found:
\* nothing; the new array only makes the navigation effect run
AnnGoToNextUnannotated(s, batchOk) ==
    LET nextUnannotatedIndex ==
            findIndex({i \in DOMAIN annComments[s] :
                          /\ i > annIndex[s]
                          /\ annComments[s][i] \notin DOMAIN annAnnotations[s]})
        nextBatchStart == ((annIndex[s] + 1) \div BatchSize) * BatchSize
    IN  /\ IF nextUnannotatedIndex # -1
           THEN AnnCommit(s, annComments[s], annTotalComments[s], annAnnotations[s],
                          nextUnannotatedIndex, FALSE)
           ELSE /\ nextBatchStart < annTotalComments[s]
                /\ IF batchOk
                   THEN AnnCommit(s, loadCommentsBatch(annComments[s], nextBatchStart),
                                  annTotalComments[s], annAnnotations[s], annIndex[s], TRUE)
                   ELSE AnnKeep(s)
        /\ UNCHANGED <<annotationsSeq, annRole, annPc, dbAnnotations, kcVars, fnVars, adjVars, appVars,
                 annLoading, annWriteError>>

\* the sessions that are running
Sessions == DOMAIN annRole

\* sessions just mounted with the given roles
AnnMounted(roles) ==
    /\ annRole = roles
    /\ annPc = [s \in DOMAIN roles |-> "mount"]
    /\ annComments = [s \in DOMAIN roles |-> <<>>]
    /\ annTotalComments = [s \in DOMAIN roles |-> 0]
    /\ annAnnotations = [s \in DOMAIN roles |-> <<>>]
    /\ annIndex = [s \in DOMAIN roles |-> 0]
    /\ annLoading = [s \in DOMAIN roles |-> FALSE]
    /\ annWriteError = [s \in DOMAIN roles |-> <<>>]

\* two annotator sessions, each in a browser of its own, over an empty
\* annotations table: the first one of annotator1, the second one of the same
\* or of the other role (annRole holds the currentRole of each)
InitAnn ==
    /\ FnIdle
    /\ KcIdle
    /\ AdjIdle
    /\ dbAnnotations = {}
    /\ annotationsSeq = 1
    /\ currentRole = <<>>
    /\ \E role \in Range(Roles) : AnnMounted(<<"annotator1", role>>)

NextAnn ==
    \E s \in Sessions :
        \/ \E countOk, batchOk, annotationsOk \in BOOLEAN :
               AnnLoadDataAndNavigate(s, countOk, batchOk, annotationsOk)
        \/ \E labels \in AnnLabels, requestOk \in BOOLEAN :
               AnnHandleSubmit(s, labels, requestOk)
        \/ \E requestOk \in BOOLEAN : AnnClearAnnotation(s, requestOk)
        \/ AnnGoToNext(s)
        \/ AnnGoToPrevious(s)
        \/ AnnHandleJumpToComment(s)
        \/ \E batchOk \in BOOLEAN : AnnGoToNextUnannotated(s, batchOk)

SpecAnn == InitAnn /\ [][NextAnn]_vars

\* ---------------------------------------------------------------- the application
adjComponentVars == <<adjPending, adjComments, adjTotalComments, adjAnnotations,
                      adjFinalAnnotations, adjIndex, adjNav, adjLoading, adjWriteError>>
annComponentVars == <<annRole, annPc, annComments, annTotalComments, annAnnotations, annIndex,
                      annLoading, annWriteError>>
storeVars == <<dbComments, dbAnnotations, annotationsSeq, dbFinal>>

\* AnnotationInterface is rendered for the role: initial state, mount effect due
MountAnnotationInterface(role) ==
    /\ annRole' = <<role>>
    /\ annPc' = <<"mount">>
    /\ annComments' = << <<>> >>
    /\ annTotalComments' = <<0>>
    /\ annAnnotations' = << <<>> >>
    /\ annIndex' = <<0>>
    /\ annLoading' = <<FALSE>>
    /\ annWriteError' = << <<>> >>

\* KappaCalculator and AdjudicatorInterface are rendered: initial state, the
\* requests of their mount effects due
MountAdjudicatorPage ==
    /\ kcAnnotations' = <<>>
    /\ kappaResults' = <<>>
    /\ kcLoading' = FALSE
    /\ kcFetchPending' = TRUE
    /\ alertText' = <<>>
    /\ kcRun' = <<>>
    /\ adjPending' = {"count", "annotations", "finals"}
    /\ adjComments' = <<>>
    /\ adjTotalComments' = 0
    /\ adjAnnotations' = <<>>
    /\ adjFinalAnnotations' = <<>>
    /\ adjIndex' = 0
    /\ adjNav' = <<>>
    /\ adjLoading' = FALSE
    /\ adjWriteError' = <<>>

\* the components of the role are removed: their state is gone and the
\* requests they have in flight set nothing any more
Unmount ==
    /\ annRole' = <<>>
    /\ annPc' = <<>>
    /\ annComments' = <<>>
    /\ annTotalComments' = <<>>
    /\ annAnnotations' = <<>>
    /\ annIndex' = <<>>
    /\ annLoading' = <<>>
    /\ annWriteError' = <<>>
    /\ kcAnnotations' = <<>>
    /\ kappaResults' = <<>>
    /\ kcLoading' = FALSE
    /\ kcFetchPending' = FALSE
    /\ alertText' = <<>>
    /\ kcRun' = <<>>
    /\ adjPending' = {}
    /\ adjComments' = <<>>
    /\ adjTotalComments' = 0
    /\ adjAnnotations' = <<>>
    /\ adjFinalAnnotations' = <<>>
    /\ adjIndex' = 0
    /\ adjNav' = <<>>
    /\ adjLoading' = FALSE
    /\ adjWriteError' = <<>>

\* a button of RoleSelector, shown while no role is selected
SelectRole ==
    \E role \in {"annotator1", "annotator2", "adjudicator"} :
        /\ currentRole = <<>>
        /\ currentRole' = <<role>>
        /\ IF role = "adjudicator"
           THEN MountAdjudicatorPage /\ UNCHANGED annComponentVars
           ELSE MountAnnotationInterface(role) /\ UNCHANGED <<kcVars, adjComponentVars>>
        /\ UNCHANGED <<storeVars, fnVars>>

\* the Change Role button: setCurrentRole(null)
ChangeRole ==
    /\ currentRole # <<>>
    /\ currentRole' = <<>>
    /\ Unmount
    /\ UNCHANGED <<storeVars, fnVars>>

\* one browser over empty annotation tables, no role selected yet
Init ==
    /\ FnIdle
    /\ KcIdle
    /\ AdjIdle
    /\ AnnIdle
    /\ currentRole = <<>>
    /\ dbAnnotations = {}

\* the labels the annotators of this browser pick
AppLabels == <<"positive", "partisan">>

\* AnnotationInterface of the browser (session 1); its read requests succeed
NextAppAnnotator ==
    \/ AnnLoadDataAndNavigate(1, TRUE, TRUE, TRUE)
    \/ \E requestOk \in BOOLEAN : AnnHandleSubmit(1, AppLabels, requestOk)
    \/ \E requestOk \in BOOLEAN : AnnClearAnnotation(1, requestOk)
    \/ AnnGoToNext(1)
    \/ AnnGoToPrevious(1)
    \/ AnnHandleJumpToComment(1)
    \/ AnnGoToNextUnannotated(1, TRUE)

\* KappaCalculator and AdjudicatorInterface of the browser; the read requests
\* of AdjudicatorInterface succeed
NextAppAdjudicator ==
    \/ fetchAnnotations
    \/ KcCalculateKappa
    \/ AdjFetchCount(TRUE)
    \/ AdjFetchBatch(TRUE)
    \/ AdjFetchAnnotations(TRUE)
    \/ AdjFetchFinalAnnotations(TRUE)
    \/ AdjGoToNext
    \/ AdjGoToPrevious
    \/ AdjHandleJumpToComment
    \/ \E labels \in FinalLabels, requestOk \in BOOLEAN : AdjHandleSubmit(labels, requestOk)

\* renderContent: the adjudicator role gets KappaCalculator and
\* AdjudicatorInterface, the annotator roles get AnnotationInterface
Next ==
    \/ SelectRole
    \/ ChangeRole
    \/ currentRole \in {<<"annotator1">>, <<"annotator2">>} /\ NextAppAnnotator
    \/ currentRole = <<"adjudicator">> /\ NextAppAdjudicator

Spec == Init /\ [][Next]_vars

\* ---------------------------------------------------------------- several browsers
\* the adjudicator's page (KappaCalculator and AdjudicatorInterface) has just
\* mounted in one browser while annotator2 works in another one; annotator1
\* has judged comment 1 before.  The read requests succeed
InitShared ==
    /\ FnIdle
    /\ currentRole = <<"adjudicator">>
    /\ dbAnnotations = {Annotation(1, 1, "annotator1", "positive", "partisan")}
    /\ annotationsSeq = 2
    /\ dbFinal = {}
    /\ dbComments = Comments
    /\ AnnMounted(<<"annotator2">>)
    /\ kcAnnotations = <<>>
    /\ kappaResults = <<>>
    /\ kcLoading = FALSE
    /\ kcFetchPending = TRUE
    /\ alertText = <<>>
    /\ kcRun = <<>>
    /\ adjPending = {"count", "annotations", "finals"}
    /\ adjComments = <<>>
    /\ adjTotalComments = 0
    /\ adjAnnotations = <<>>
    /\ adjFinalAnnotations = <<>>
    /\ adjIndex = 0
    /\ adjNav = <<>>
    /\ adjLoading = FALSE
    /\ adjWriteError = <<>>

\* the annotator's browser
NextSharedAnnotator ==
    \/ AnnLoadDataAndNavigate(1, TRUE, TRUE, TRUE)
    \/ \E labels \in AnnLabels : AnnHandleSubmit(1, labels, TRUE)
    \/ AnnClearAnnotation(1, TRUE)
    \/ AnnGoToNext(1)
    \/ AnnGoToPrevious(1)

\* the adjudicator's browser
NextSharedAdjudicator ==
    \/ fetchAnnotations
    \/ KcCalculateKappa
    \/ AdjFetchCount(TRUE)
    \/ AdjFetchBatch(TRUE)
    \/ AdjFetchAnnotations(TRUE)
    \/ AdjFetchFinalAnnotations(TRUE)
    \/ AdjGoToNext
    \/ AdjGoToPrevious
    \/ \E labels \in FinalLabels : AdjHandleSubmit(labels, TRUE)

NextShared == NextSharedAnnotator \/ NextSharedAdjudicator

SpecShared == InitShared /\ [][NextShared]_vars

\* ---------------------------------------------------------------- properties of the function
\* the call returned for sequences of length n > 0
Returned == fnPc = "done" /\ Len(seq1) > 0

K == Len(labelList)

\* number of indices at which the two sequences carry the given labels
PairCount(l1, l2) == Cardinality({i \in 1..Len(seq1) : seq1[i] = l1 /\ seq2[i] = l2})

AgreeCount == Cardinality({i \in 1..Len(seq1) : seq1[i] = seq2[i]})

RECURSIVE SumOver(_, _)
SumOver(f, S) ==
    IF S = {} THEN 0
    ELSE LET x == CHOOSE y \in S : TRUE IN f[x] + SumOver(f, S \ {x})

Cells == (0..(K - 1)) \X (0..(K - 1))
MatrixTotal == SumOver([p \in Cells |-> report.matrix[p[1]][p[2]]], Cells)
DiagTotal == SumOver([r \in 0..(K - 1) |-> report.matrix[r][r]], 0..(K - 1))
RowTotal(r) == SumOver([c \in 0..(K - 1) |-> report.matrix[r][c]], 0..(K - 1))
ColTotal(c) == SumOver([r \in 0..(K - 1) |-> report.matrix[r][c]], 0..(K - 1))
MarginalProducts == SumOver([r \in 0..(K - 1) |-> RowTotal(r) * ColTotal(r)], 0..(K - 1))

\* position of each label in the fixed lists
FixedPosition ==
    [l \in {"positive", "negative", "neutral", "partisan", "objective", "non_polarized"} |->
        CASE l \in {"positive", "partisan"} -> 0
          [] l \in {"negative", "objective"} -> 1
          [] l \in {"neutral", "non_polarized"} -> 2]

\* C1: for equal-length sequences of length n > 0 over the fixed label list,
\* matrix[r][c] is the number of indices at which annotator1 gave the label
\* at position r and annotator2 the label at position c of the fixed list
\* (sentiment: positive, negative, neutral; discourse: partisan, objective,
\* non_polarized).
C1_MatrixCounts ==
    Returned =>
        /\ ~report.threw
        /\ DOMAIN report.matrix = 0..2
        /\ \A l1 \in Range(labelList), l2 \in Range(labelList) :
              report.matrix[FixedPosition[l1]][FixedPosition[l2]] = PairCount(l1, l2)

C1_Witness ==
    /\ Returned
    /\ labelList = sentimentLabels
    /\ report.matrix[0][1] = 2
    /\ report.matrix[2][0] = 1
    /\ report.matrix[1][0] = 0

\* C2: for sequences of length n > 0 over the fixed label list, the cells of
\* the returned matrix sum to n.
C2_MatrixTotal == Returned => MatrixTotal = Len(seq1)

C2_Witness == Returned /\ Len(seq1) = 4 /\ MatrixTotal = 4 /\ DiagTotal = 1

\* C3: for sequences of length n > 0, observedAgreement is the number of
\* indices with seq1[i] = seq2[i] divided by n, which is the sum of the
\* diagonal of the returned matrix divided by n.
C3_ObservedAgreement ==
    Returned =>
        /\ report.observedAgreement = Norm(AgreeCount, Len(seq1))
        /\ report.observedAgreement = Norm(DiagTotal, Len(seq1))

C3_Witness ==
    /\ Returned
    /\ Len(seq1) = 3
    /\ AgreeCount = 2
    /\ report.observedAgreement = [num |-> 2, den |-> 3]

\* C4: for inputs of length n > 0, expectedAgreement is the sum over label
\* positions r of (row-r total / n) * (column-r total / n), that is
\* n^2 * expectedAgreement = sum over r of rowTotal[r] * colTotal[r].
C4_ExpectedAgreement ==
    Returned =>
        /\ report.expectedAgreement = Norm(MarginalProducts, Len(seq1) * Len(seq1))
        /\ NumMul(Int2Num(Len(seq1) * Len(seq1)), report.expectedAgreement)
              = Int2Num(MarginalProducts)

C4_Witness ==
    /\ Returned
    /\ Len(seq1) = 3
    /\ RowTotal(0) = 2 /\ ColTotal(0) = 1 /\ RowTotal(1) = 1 /\ ColTotal(1) = 2
    /\ report.expectedAgreement = [num |-> 4, den |-> 9]

\* C5: for inputs of length n > 0, kappa is 1 when expectedAgreement is
\* exactly 1 and otherwise (observedAgreement - expectedAgreement) /
\* (1 - expectedAgreement); no division by zero occurs, and the balanced
\* two-label example with Po = Pe = 1/2 gives kappa 0.
C5_KappaFormula ==
    Returned =>
        /\ IsFinite(report.observedAgreement)
        /\ IsFinite(report.expectedAgreement)
        /\ IsFinite(report.kappa)
        /\ MarginalProducts = Len(seq1) * Len(seq1) => report.kappa = One
        /\ MarginalProducts # Len(seq1) * Len(seq1) =>
              report.kappa = Norm(Len(seq1) * DiagTotal - MarginalProducts,
                                  Len(seq1) * Len(seq1) - MarginalProducts)
        /\ (report.observedAgreement = [num |-> 1, den |-> 2]
               /\ report.expectedAgreement = [num |-> 1, den |-> 2]) => report.kappa = Zero

C5_Witness ==
    /\ Returned
    /\ seq1 = <<labelList[1], labelList[1], labelList[2], labelList[2]>>
    /\ seq2 = <<labelList[1], labelList[2], labelList[1], labelList[2]>>
    /\ report.observedAgreement = [num |-> 1, den |-> 2]
    /\ report.expectedAgreement = [num |-> 1, den |-> 2]
    /\ report.kappa = Zero

\* C6: for inputs of length n > 0, kappa <= 1, and kappa is strictly negative
\* whenever observedAgreement < expectedAgreement.
C6_KappaRange ==
    Returned =>
        /\ NumLe(report.kappa, One)
        /\ NumLt(report.observedAgreement, report.expectedAgreement)
              => NumLt(report.kappa, Zero)

C6_Witness ==
    /\ Returned
    /\ NumLt(report.observedAgreement, report.expectedAgreement)
    /\ NumLt(report.kappa, Zero)

\* C7: if the two sequences are elementwise equal (n > 0), observedAgreement
\* is 1 and kappa is 1, also when expectedAgreement is 1.
C7_IdenticalSequences ==
    (Returned /\ seq1 = seq2) =>
        /\ report.observedAgreement = One
        /\ report.kappa = One

C7_Witness ==
    /\ Returned
    /\ seq1 = seq2
    /\ NumLt(report.expectedAgreement, One)
    /\ report.kappa = One

\* C8: if every judgment of both sequences is one and the same label (n > 0),
\* expectedAgreement is 1 and kappa is 1; nothing is divided by zero.
C8_SingleLabel ==
    (Returned /\ \E l \in Range(labelList) :
                    \A i \in 1..Len(seq1) : seq1[i] = l /\ seq2[i] = l) =>
        /\ report.expectedAgreement = One
        /\ report.kappa = One

C8_Witness ==
    /\ Returned
    /\ Len(seq1) = 4
    /\ \A i \in 1..4 : seq1[i] = "objective" /\ seq2[i] = "objective"
    /\ report.expectedAgreement = One
    /\ report.kappa = One

\* ---------------------------------------------------------------- properties of calculateKappa
\* the snapshot holds a row of each role for comment c
HasBothRoles(snapshot, c) ==
    /\ \E i \in 1..Len(snapshot) :
          snapshot[i].comment_id = c /\ snapshot[i].annotator_role = "annotator1"
    /\ \E i \in 1..Len(snapshot) :
          snapshot[i].comment_id = c /\ snapshot[i].annotator_role = "annotator2"

ItemsWithBothRoles(snapshot) == {c \in Comments : HasBothRoles(snapshot, c)}

CellTotal(matrix) ==
    SumOver([p \in (0..2) \X (0..2) |-> matrix[p[1]][p[2]]], (0..2) \X (0..2))

\* C9: when the snapshot holds no complete pair, calculateKappa does not call
\* the kappa computation, shows the notice, leaves kappaResults as it was and
\* ends with loading = false.
C9_NoCompletePairs ==
    (kcRun # <<>> /\ ItemsWithBothRoles(kcRun[1].annotations) = {}) =>
        /\ kcRun[1].calls = 0
        /\ alertText = <<NoPairsMessage>>
        /\ kappaResults = kcRun[1].before
        /\ kcLoading = FALSE

C9_Witness ==
    /\ kcRun # <<>>
    /\ Len(kcRun[1].annotations) = 2
    /\ ItemsWithBothRoles(kcRun[1].annotations) = {}
    /\ alertText = <<NoPairsMessage>>
    /\ kappaResults = <<>>
    /\ kcLoading = FALSE

\* C10: an item contributes a pair to the computation exactly when the
\* snapshot holds a judgment for it from annotator1 and one from annotator2;
\* items with zero or one judgment are left out without an error, so n is the
\* number of items having both roles.
C10_CompletePairs ==
    kcRun # <<>> =>
        LET run == kcRun[1]
            both == ItemsWithBothRoles(run.annotations)
        IN /\ {run.completePairs[i].annotator1[1].comment_id :
                  i \in {j \in 1..Len(run.completePairs) :
                            run.completePairs[j].annotator1 # <<>>}} = both
           /\ Len(run.completePairs) = Cardinality(both)
           /\ kcLoading = FALSE
           /\ both # {} =>
                 /\ kappaResults # <<>>
                 /\ CellTotal(kappaResults[1].sentiment.matrix) = Cardinality(both)
                 /\ CellTotal(kappaResults[1].discoursePolarization.matrix)
                       = Cardinality(both)

C10_Witness ==
    /\ kcRun # <<>>
    /\ Len(kcRun[1].annotations) = 3
    /\ Cardinality(ItemsWithBothRoles(kcRun[1].annotations)) = 1
    /\ Len(kcRun[1].completePairs) = 1
    /\ kappaResults # <<>>
    /\ CellTotal(kappaResults[1].sentiment.matrix) = 1

\* the row of the snapshot for comment c and the given role
SnapshotRow(snapshot, c, r) ==
    snapshot[CHOOSE i \in 1..Len(snapshot) :
                snapshot[i].comment_id = c /\ snapshot[i].annotator_role = r]

Bijections(S, T) ==
    {f \in [S -> T] : /\ \A x \in S, y \in S : f[x] = f[y] => x = y
                      /\ \A t \in T : \E x \in S : f[x] = t}

\* C11: for every index i of the sequences calculateKappa passes to
\* calculateKappaForCategory, seq1[i] is annotator1's label and seq2[i] is
\* annotator2's label for one and the same item, in the sentiment and in the
\* discourse dimension.
C11_ConsistentPairing ==
    (kcRun # <<>> /\ kcRun[1].calls > 0) =>
        LET run == kcRun[1]
            passed == run.passed[1]
            both == ItemsWithBothRoles(run.annotations)
            n == Cardinality(both)
        IN /\ Len(passed.sentiment1) = n /\ Len(passed.sentiment2) = n
           /\ Len(passed.discourse1) = n /\ Len(passed.discourse2) = n
           /\ \E item \in Bijections(1..n, both) :
                 \A i \in 1..n :
                    LET a1 == SnapshotRow(run.annotations, item[i], "annotator1")
                        a2 == SnapshotRow(run.annotations, item[i], "annotator2")
                    IN /\ passed.sentiment1[i] = a1.sentiment
                       /\ passed.sentiment2[i] = a2.sentiment
                       /\ passed.discourse1[i] = a1.discourse_polarization
                       /\ passed.discourse2[i] = a2.discourse_polarization

C11_Witness ==
    /\ kcRun # <<>>
    /\ kcRun[1].calls = 2
    /\ kcRun[1].passed[1].sentiment1 = <<"positive", "negative">>
    /\ kcRun[1].passed[1].sentiment2 = <<"negative", "negative">>
    /\ kcRun[1].passed[1].discourse1 = <<"partisan", "partisan">>
    /\ kcRun[1].passed[1].discourse2 = <<"partisan", "non_polarized">>

\* what calculateKappa stores, per dimension, for a snapshot that has a
\* complete pair
SentimentReportFor(snapshot) ==
    LET completePairs == completePairsOf(groupByComment(<<>>, snapshot, 1))
    IN withLabels(calculateKappaForCategory(
                      mapLabels(completePairs, "annotator1", "sentiment"),
                      mapLabels(completePairs, "annotator2", "sentiment"),
                      sentimentLabels), sentimentLabels)

DiscourseReportFor(snapshot) ==
    LET completePairs == completePairsOf(groupByComment(<<>>, snapshot, 1))
    IN withLabels(calculateKappaForCategory(
                      mapLabels(completePairs, "annotator1", "discourse_polarization"),
                      mapLabels(completePairs, "annotator2", "discourse_polarization"),
                      discourseLabels), discourseLabels)

\* the snapshots that differ from the given one in the discourse label, or in
\* the sentiment label, of one judgment
DiscourseAltered(snapshot) ==
    {[snapshot EXCEPT ![i].discourse_polarization = l] :
        i \in 1..Len(snapshot), l \in Range(discourseLabels)} \ {snapshot}

SentimentAltered(snapshot) ==
    {[snapshot EXCEPT ![i].sentiment = l] :
        i \in 1..Len(snapshot), l \in Range(sentimentLabels)} \ {snapshot}

\* C12: the sentiment report of calculateKappa is the same for a snapshot that
\* differs only in discourse labels, and the discourse report is the same for
\* a snapshot that differs only in sentiment labels (label by label, hence for
\* any number of altered labels).
C12_DimensionsIndependent ==
    (kcRun # <<>> /\ kcRun[1].calls = 2) =>
        /\ kappaResults # <<>>
        /\ \A alt \in DiscourseAltered(kcRun[1].annotations) :
              SentimentReportFor(alt) = kappaResults[1].sentiment
        /\ \A alt \in SentimentAltered(kcRun[1].annotations) :
              DiscourseReportFor(alt) = kappaResults[1].discoursePolarization

C12_Witness ==
    /\ kcRun # <<>>
    /\ kcRun[1].calls = 2
    /\ Len(kcRun[1].completePairs) = 2
    /\ kappaResults # <<>>
    /\ \E alt \in DiscourseAltered(kcRun[1].annotations) :
          /\ DiscourseReportFor(alt).kappa
                # kappaResults[1].discoursePolarization.kappa
          /\ SentimentReportFor(alt) = kappaResults[1].sentiment

\* ---------------------------------------------------------------- labels outside the list
HasOutOfListLabel ==
    \E i \in 1..Len(seq1) :
        seq1[i] \notin Range(labelList) \/ seq2[i] \notin Range(labelList)

\* C13: when a label of either sequence is not in the fixed label list, the
\* computation raises an error: it does not drop the pair silently and it
\* returns no report whose matrix total differs from n.
C13_OutOfListLabelIsAnError ==
    (Returned /\ HasOutOfListLabel) =>
        /\ report.threw
        /\ ~report.threw => MatrixTotal = Len(seq1)

\* ---------------------------------------------------------------- adjudicator: the current item
\* comments[currentCommentIndex], <<>> when that slot is not loaded
currentComment ==
    IF adjIndex \in DOMAIN adjComments THEN <<adjComments[adjIndex]>> ELSE <<>>

\* currentComment ? annotations[currentComment.id] || [] : []
currentAnnotations ==
    IF currentComment # <<>> THEN commentAnnotationsOf(adjAnnotations, currentComment[1])
    ELSE <<>>

\* the lists of judgments the adjudicator applies hasDisagreement to: the list
\* of every comment (navigation effect) and the list of the current one
JudgmentLists ==
    {commentAnnotationsOf(adjAnnotations, c) : c \in Comments} \cup {currentAnnotations}

\* C14: hasDisagreement of exactly two judgments is true iff their sentiment
\* labels differ or their discourse labels differ, so equal sentiment with
\* different discourse is a disagreement; of fewer than two it is false.
C14_HasDisagreement ==
    \A list \in JudgmentLists :
        /\ Len(list) <= 2
        /\ Len(list) < 2 => hasDisagreement(list) = FALSE
        /\ Len(list) = 2 =>
              (hasDisagreement(list) <=>
                  \/ list[1].sentiment # list[2].sentiment
                  \/ list[1].discourse_polarization # list[2].discourse_polarization)

\* the current item has the judgments positive/partisan and positive/objective
\* and is flagged as a disagreement; another list has fewer than two judgments
C14_Witness ==
    /\ Len(currentAnnotations) = 2
    /\ currentAnnotations[1].sentiment = "positive"
    /\ currentAnnotations[2].sentiment = "positive"
    /\ currentAnnotations[1].discourse_polarization = "partisan"
    /\ currentAnnotations[2].discourse_polarization = "objective"
    /\ hasDisagreement(currentAnnotations)
    /\ \E list \in JudgmentLists : Len(list) < 2 /\ ~hasDisagreement(list)

\* ---------------------------------------------------------------- adjudication states
\* the states an item is in by the predicates the adjudicator evaluates on its
\* own maps: hasFinalAnnotation (62, 163), the two findIndex predicates
\* (59-66, 72-76) and currentAnnotations.length < 2 (340)
adjudicationStates(comment) ==
    LET commentAnnotations == commentAnnotationsOf(adjAnnotations, comment)
        hasFinalAnnotation == comment \in DOMAIN adjFinalAnnotations
    IN  {st \in {"INCOMPLETE", "COMPLETE_AGREE", "COMPLETE_DISAGREE", "FINALIZED"} :
            \/ st = "FINALIZED" /\ hasFinalAnnotation
            \/ st = "COMPLETE_DISAGREE"
                  /\ isDisagreementTarget(comment, adjAnnotations, adjFinalAnnotations)
            \/ st = "COMPLETE_AGREE"
                  /\ isUnfinished(comment, adjAnnotations, adjFinalAnnotations)
                  /\ ~hasDisagreement(commentAnnotations)
            \/ st = "INCOMPLETE" /\ Len(commentAnnotations) < 2 /\ ~hasFinalAnnotation}

\* the labels of the judgments of a comment in the adjudicator's map
JudgmentLabels(comment) ==
    LET commentAnnotations == commentAnnotationsOf(adjAnnotations, comment)
    IN  [i \in 1..Len(commentAnnotations) |->
            <<commentAnnotations[i].sentiment, commentAnnotations[i].discourse_polarization>>]

IndicesIn(state) == {c - 1 : c \in {x \in dbComments : adjudicationStates(x) = {state}}}

\* fetchData has resolved with the count and the first batch of the table
InitialLoadDone ==
    /\ adjPending = {}
    /\ adjTotalComments = Cardinality(dbComments)
    /\ 0 \in DOMAIN adjComments

\* C16: once the data is loaded, the navigation selects the lowest-index item
\* in COMPLETE_DISAGREE whenever an item is in that state, and only when none
\* is the lowest-index item in COMPLETE_AGREE; it never selects an INCOMPLETE
\* or FINALIZED item.
C16_QueueSelection ==
    InitialLoadDone =>
        /\ IndicesIn("COMPLETE_DISAGREE") # {} =>
              adjNav = <<findIndex(IndicesIn("COMPLETE_DISAGREE"))>>
        /\ (IndicesIn("COMPLETE_DISAGREE") = {} /\ IndicesIn("COMPLETE_AGREE") # {}) =>
              adjNav = <<findIndex(IndicesIn("COMPLETE_AGREE"))>>
        /\ adjNav # <<>> =>
              adjNav[1] \notin IndicesIn("INCOMPLETE") \cup IndicesIn("FINALIZED")

\* ---------------------------------------------------------------- empty queue
\* the render: "No comments available for adjudication." replaces the whole
\* interface iff there is no current comment; otherwise the current comment
\* is shown under "Comment to Adjudicate:" with the decision form
rendersNoComments == currentComment = <<>>

\* C17: once the data is loaded, when no item is in COMPLETE_DISAGREE and none
\* in COMPLETE_AGREE, the adjudicator is told that the queue is empty and no
\* item is presented as the one to adjudicate.
C17_EmptyQueueReported ==
    (/\ InitialLoadDone
     /\ IndicesIn("COMPLETE_DISAGREE") = {}
     /\ IndicesIn("COMPLETE_AGREE") = {}) => rendersNoComments

\* ---------------------------------------------------------------- one final decision per item
\* the rows of a final_annotations table that belong to a comment
FinalRowsOf(table, comment) == {x \in table : x.comment_id = comment}

\* C19: after every step the store holds at most one final decision per item,
\* and an item that had a final decision keeps that record (the same id): a
\* save changes it in place and adds no second one.
C19_OneFinalPerItem ==
    [][\A c \in dbComments :
          /\ Cardinality(FinalRowsOf(dbFinal', c)) <= 1
          /\ FinalRowsOf(dbFinal, c) # {} =>
                {x.id : x \in FinalRowsOf(dbFinal', c)} = {x.id : x \in FinalRowsOf(dbFinal, c)}]_vars

\* the decision an earlier session left for comment 2 (id 2, positive /
\* partisan) is the only row and carries the labels of a later save: ids are
\* handed out in increasing order, so it was updated, not inserted
C19_Witness ==
    /\ dbFinal = {FinalAnnotation(2, 2, "negative", "objective")}
    /\ 2 \in DOMAIN adjFinalAnnotations
    /\ adjFinalAnnotations[2] = FinalAnnotation(2, 2, "negative", "objective")

\* ---------------------------------------------------------------- one judgment per item and role
\* the rows of an annotations table of a comment and a role
JudgmentsOf(table, comment, annotator_role) ==
    {x \in table : x.comment_id = comment /\ x.annotator_role = annotator_role}

\* C18: whatever the annotator sessions have submitted, resubmitted and
\* cleared, sessions of one role with stale maps included, the store holds at
\* most one judgment per item and annotator role.
C18_OneJudgmentPerItemAndRole ==
    \A c \in dbComments : \A r \in Range(Roles) :
        Cardinality(JudgmentsOf(dbAnnotations, c, r)) <= 1

\* two sessions of one role, one of them holding a row that was cleared and
\* submitted again by the other: its map is stale, the store has one row
C18_Witness ==
    /\ annRole[1] = annRole[2]
    /\ \E s \in Sessions : \E c \in DOMAIN annAnnotations[s] :
          /\ Cardinality(JudgmentsOf(dbAnnotations, c, annRole[s])) = 1
          /\ \E x \in JudgmentsOf(dbAnnotations, c, annRole[s]) :
                x.id # annAnnotations[s][c].id

\* ---------------------------------------------------------------- who writes final decisions
\* C20: a step that creates or changes a final decision is a save of the
\* adjudicator (handleSubmit of AdjudicatorInterface, rendered for the
\* adjudicator role only): no annotator action, fetch, navigation or kappa
\* computation changes table final_annotations.
C20_OnlyAdjudicatorSaves ==
    [][dbFinal' # dbFinal =>
          /\ currentRole = <<"adjudicator">>
          /\ \E labels \in FinalLabels : AdjHandleSubmit(labels, TRUE)]_vars

\* both annotators have judged an item alike, the adjudicator's page has
\* loaded it, the navigation has selected an item and kappa is computed; the
\* item has no final decision
C20_Witness ==
    /\ currentRole = <<"adjudicator">>
    /\ adjNav # <<>>
    /\ kappaResults # <<>>
    /\ \E c \in dbComments :
          /\ Len(commentAnnotationsOf(adjAnnotations, c)) = 2
          /\ ~hasDisagreement(commentAnnotationsOf(adjAnnotations, c))
          /\ Cardinality(JudgmentsOf(dbAnnotations, c, "annotator1")) = 1
          /\ Cardinality(JudgmentsOf(dbAnnotations, c, "annotator2")) = 1
          /\ FinalRowsOf(dbFinal, c) = {}

\* ---------------------------------------------------------------- finalized items stay finalized
\* C21: once a final decision exists for an item, in every later state,
\* whatever judgments were created, updated or cleared and however the
\* decision was edited since, the decision still exists and the item is not
\* the one the adjudicator's navigation effect selected.
C21_FinalizedNeverSelected ==
    [][\A c \in dbComments :
          FinalRowsOf(dbFinal, c) # {} =>
              /\ FinalRowsOf(dbFinal', c) # {}
              /\ adjNav' # <<c - 1>>]_vars

\* ---------------------------------------------------------------- state follows the judgments
\* the labels of the judgments table annotations holds for a comment, in the
\* order fetchAnnotations would deliver them
StoredJudgmentLabels(comment) ==
    LET rows == commentAnnotationsOf(annotationsMapOf(orderRows(dbAnnotations)), comment)
    IN  [i \in 1..Len(rows) |-> <<rows[i].sentiment, rows[i].discourse_polarization>>]

\* C22: after a step that creates, updates or deletes a judgment of an item,
\* the judgments the loaded adjudicator page uses for the item (navigation
\* effect, disagreement flag) are the item's current judgments; and after a
\* step that creates or updates a final decision of an item, the page treats
\* the item as FINALIZED.
C22_StateFollowsStore ==
    [][\A c \in dbComments :
          /\ (/\ \E r \in Range(Roles) :
                    JudgmentsOf(dbAnnotations', c, r) # JudgmentsOf(dbAnnotations, c, r)
              /\ InitialLoadDone') =>
                 JudgmentLabels(c)' = StoredJudgmentLabels(c)'
          /\ FinalRowsOf(dbFinal', c) # FinalRowsOf(dbFinal, c) =>
                 adjudicationStates(c)' = {"FINALIZED"}]_vars

\* ---------------------------------------------------------------- a judgment deleted after the fetch
\* the comments of which KappaCalculator's snapshot holds a judgment that
\* table annotations no longer holds (ids are never handed out twice)
DeletedSinceFetch ==
    {kcAnnotations[i].comment_id :
        i \in {j \in 1..Len(kcAnnotations) :
                  \A x \in dbAnnotations : x.id # kcAnnotations[j].id}}

\* the comments of the pairs a calculateKappa call has scored
ScoredItems(run) ==
    {run.completePairs[i].annotator1[1].comment_id :
        i \in {j \in 1..Len(run.completePairs) : run.completePairs[j].annotator1 # <<>>}}

\* C23: when calculateKappa runs after a judgment of its snapshot was deleted
\* from the store, it ends without an exception (loading = false) and no item
\* whose judgment was deleted is among the pairs it scores.
C23_DeletedJudgmentExcluded ==
    [][KcCalculateKappa =>
          /\ kcLoading' = FALSE
          /\ kcRun' # <<>>
          /\ ScoredItems(kcRun'[1]) \cap DeletedSinceFetch = {}]_vars

\* ---------------------------------------------------------------- what an annotator's write touches
\* the (comment, role) cells whose judgments a step changes
ChangedCells ==
    {cell \in dbComments \X Range(Roles) :
        JudgmentsOf(dbAnnotations', cell[1], cell[2]) # JudgmentsOf(dbAnnotations, cell[1], cell[2])}

\* session s holds, for its current comment, the record the store holds
HoldsStoredRecord(s) ==
    /\ annIndex[s] \in DOMAIN annComments[s]
    /\ annComments[s][annIndex[s]] \in DOMAIN annAnnotations[s]
    /\ \E x \in dbAnnotations : x.id = annAnnotations[s][annComments[s][annIndex[s]]].id

\* C24: a step changes the judgments of at most one (item, role): those of the
\* acting session's current item and own role, and it does so by creating the
\* record (a submission of a session that holds none), by changing the two
\* labels of the record and nothing else of it (a resubmission), or by
\* deleting it (a clear).  A successful first submission does create the
\* record with the labels picked, a successful resubmission or clear of the
\* stored record does change or delete it.  No judgment of the other role or
\* of another item changes.
C24_JudgmentLifecycle ==
    [][/\ ChangedCells # {} =>
             \E s \in Sessions :
                /\ annIndex[s] \in DOMAIN annComments[s]
                /\ ChangedCells = {<<annComments[s][annIndex[s]], annRole[s]>>}
                /\ LET comment == annComments[s][annIndex[s]]
                       before == JudgmentsOf(dbAnnotations, comment, annRole[s])
                       after == JudgmentsOf(dbAnnotations', comment, annRole[s])
                   IN \/ /\ before = {}
                         /\ Cardinality(after) = 1
                         /\ comment \notin DOMAIN annAnnotations[s]
                         /\ \E labels \in AnnLabels : AnnHandleSubmit(s, labels, TRUE)
                      \/ /\ Cardinality(before) = 1
                         /\ HoldsStoredRecord(s)
                         /\ \E labels \in AnnLabels :
                               /\ AnnHandleSubmit(s, labels, TRUE)
                               /\ after = {[x EXCEPT !.sentiment = labels[1],
                                                     !.discourse_polarization = labels[2]] :
                                              x \in before}
                      \/ /\ Cardinality(before) = 1
                         /\ after = {}
                         /\ AnnClearAnnotation(s, TRUE)
       /\ \A s \in Sessions : \A labels \in AnnLabels :
             (/\ AnnHandleSubmit(s, labels, TRUE)
              /\ JudgmentsOf(dbAnnotations, annComments[s][annIndex[s]], annRole[s]) = {}
              /\ annComments[s][annIndex[s]] \notin DOMAIN annAnnotations[s]) =>
                 JudgmentsOf(dbAnnotations', annComments[s][annIndex[s]], annRole[s])
                    = {Annotation(annotationsSeq, annComments[s][annIndex[s]], annRole[s],
                                  labels[1], labels[2])}
       /\ \A s \in Sessions : \A labels \in AnnLabels :
             (AnnHandleSubmit(s, labels, TRUE) /\ HoldsStoredRecord(s)) =>
                 \E x \in dbAnnotations :
                    /\ x.id = annAnnotations[s][annComments[s][annIndex[s]]].id
                    /\ [x EXCEPT !.sentiment = labels[1],
                                 !.discourse_polarization = labels[2]] \in dbAnnotations'
       /\ \A s \in Sessions :
             (AnnClearAnnotation(s, TRUE) /\ HoldsStoredRecord(s)) =>
                 \A x \in dbAnnotations' :
                    x.id # annAnnotations[s][annComments[s][annIndex[s]]].id]_vars

\* both roles have submitted for comment 1 (two records were created),
\* annotator1 has cleared its record and annotator2 has resubmitted: the one
\* record left is annotator2's, with the id it was created with
C24_Witness ==
    /\ annotationsSeq = 3
    /\ annRole = <<"annotator1", "annotator2">>
    /\ dbAnnotations = {Annotation(2, 1, "annotator2", "negative", "objective")}
    /\ 1 \notin DOMAIN annAnnotations[1]
    /\ 1 \in DOMAIN annAnnotations[2]
    /\ annAnnotations[2][1] = Annotation(2, 1, "annotator2", "negative", "objective")

\* ---------------------------------------------------------------- interpretation bands
\* the kappa handed to interpretKappa, in hundredths
InHundredths == (shownKappa.num * 100) \div shownKappa.den

C26_KappaAtLeastMinusOne ==
    Returned => NumLe(Int2Num(-1), report.kappa)

\* two judgments each, no agreement, both labels used once by each annotator:
\* observedAgreement 0, expectedAgreement 1/2, kappa -1
C26_Witness ==
    /\ Returned
    /\ Len(seq1) = 2
    /\ report.observedAgreement = Zero
    /\ report.expectedAgreement = [num |-> 1, den |-> 2]
    /\ report.kappa = Int2Num(-1)

\* ---------------------------------------------------------------- Next Unannotated
\* the indices after the current one of session s whose comment has no
\* judgment in the session's map, loaded or not (the comment at index i has
\* id i + 1)
LaterUnannotated(s) ==
    {i \in 0..(annTotalComments[s] - 1) :
        i > annIndex[s] /\ (i + 1) \notin DOMAIN annAnnotations[s]}

\* C27: goToNextUnannotated, with the request of a batch succeeding, moves the
\* current index to the lowest later index whose comment is unannotated,
\* whether its batch is loaded or not; it never moves the index backward and
\* leaves it unchanged only when there is no such index.
C27_NextUnannotated ==
    [][\A s \in Sessions :
          AnnGoToNextUnannotated(s, TRUE) =>
             /\ annIndex'[s] >= annIndex[s]
             /\ LaterUnannotated(s) # {} => annIndex'[s] = findIndex(LaterUnannotated(s))
             /\ LaterUnannotated(s) = {} => annIndex'[s] = annIndex[s]]_vars

\* ---------------------------------------------------------------- failed writes
\* a write handler of session s runs and its request fails: the request
\* itself, or the insert, which the UNIQUE constraint rejects
AnnWriteFails(s) ==
    \/ \E labels \in AnnLabels : AnnHandleSubmit(s, labels, FALSE)
    \/ \E labels \in AnnLabels :
          /\ AnnHandleSubmit(s, labels, TRUE)
          /\ annComments[s][annIndex[s]] \notin DOMAIN annAnnotations[s]
          /\ insertAnnotation(dbAnnotations, annotationsSeq, annComments[s][annIndex[s]],
                              annRole[s], labels[1], labels[2]).error
    \/ AnnClearAnnotation(s, FALSE)

\* handleSubmit of the adjudicator runs and its request fails
AdjWriteFails ==
    \/ \E labels \in FinalLabels : AdjHandleSubmit(labels, FALSE)
    \/ \E labels \in FinalLabels :
          /\ AdjHandleSubmit(labels, TRUE)
          /\ adjComments[adjIndex] \notin DOMAIN adjFinalAnnotations
          /\ insertFinal(dbFinal, adjComments[adjIndex], labels[1], labels[2]).error

\* C28: when the store write of a handler fails (the annotator's insert,
\* update or delete of a judgment, the adjudicator's insert or update of a
\* final decision), the handler leaves the component's map of judgments or of
\* final decisions and the table as they were and ends with loading = false.
C28_FailedWriteLeavesMap ==
    [][/\ \A s \in Sessions :
             AnnWriteFails(s) =>
                /\ annAnnotations'[s] = annAnnotations[s]
                /\ dbAnnotations' = dbAnnotations
                /\ annLoading'[s] = FALSE
       /\ AdjWriteFails =>
             /\ adjFinalAnnotations' = adjFinalAnnotations
             /\ dbFinal' = dbFinal
             /\ adjLoading' = FALSE]_vars

\* the adjudicator's page was mounted again and a save was attempted before
\* the final decisions had arrived: the table holds a decision for the current
\* comment, the request failed, the map is still empty and loading is false
C28_Witness ==
    /\ currentRole = <<"adjudicator">>
    /\ adjWriteError = <<TRUE>>
    /\ adjLoading = FALSE
    /\ "finals" \in adjPending
    /\ adjFinalAnnotations = <<>>
    /\ currentComment # <<>>
    /\ FinalRowsOf(dbFinal, currentComment[1]) # {}

\* ---------------------------------------------------------------- the count next to the button
\* the complete pairs calculateKappa would score on the snapshot the page holds
PairsToScore == completePairsOf(groupByComment(<<>>, kcAnnotations, 1))

\* C29: for every snapshot, the "Comments Annotated by Both" count of
\* getAnnotationCounts is the number n of complete pairs calculateKappa
\* scores, and the Calculate button is enabled exactly when calculateKappa
\* would not take its branch for zero complete pairs.
C29_CountMatchesPairs ==
    /\ getAnnotationCounts(kcAnnotations).completePairs = Len(PairsToScore)
    /\ ~calculateDisabled <=> ~hasNoPairs(PairsToScore)
    /\ kcRun # <<>> =>
          getAnnotationCounts(kcRun[1].annotations).completePairs
             = Len(kcRun[1].completePairs)

\* a snapshot of three judgments over two comments, one of them judged by
\* both: the count is 1, the button is enabled and calculateKappa has scored
\* one pair
C29_Witness ==
    /\ Len(kcAnnotations) = 3
    /\ getAnnotationCounts(kcAnnotations) = [totalComments |-> 2, completePairs |-> 1]
    /\ ~calculateDisabled
    /\ kcRun # <<>>
    /\ kcRun[1].annotations = kcAnnotations
    /\ Len(kcRun[1].completePairs) = 1
    /\ kcRun[1].calls = 2

\* ---------------------------------------------------------------- the queue drains in order
\* the page has loaded and every loaded comment with two judgments has a final
\* decision
NoLoadedItemLeft ==
    /\ InitialLoadDone
    /\ \A i \in DOMAIN adjComments :
          ~isUnfinished(adjComments[i], adjAnnotations, adjFinalAnnotations)

\* the navigation effect has surfaced an item that is in COMPLETE_AGREE
AgreeItemSurfaced == adjNav # <<>> /\ adjNav[1] \in IndicesIn("COMPLETE_AGREE")

\* C30: with the judgments unchanged and every save succeeding, an adjudicator
\* who keeps saving a decision for the surfaced item reaches, and stays in, a
\* state in which no loaded item with two judgments lacks a final decision;
\* and no COMPLETE_AGREE item is surfaced while an item of the table is in
\* COMPLETE_DISAGREE, that is, every COMPLETE_DISAGREE item is surfaced and
\* finalized first.
C30_QueueDrainsInOrder ==
    /\ <>[]NoLoadedItemLeft
    /\ [](AgreeItemSurfaced => IndicesIn("COMPLETE_DISAGREE") = {})

====
